---- MODULE Spec2Model ----
(***************************************************************************)
(* A model of the GTIRB language server                                     *)
(* (src/gtirb_lsp_server/gtirb_lsp_server/server.py): the line <-> Offset   *)
(* index, its incremental maintenance under edits, and the document         *)
(* handlers did_open, did_change, did_save and did_close.                   *)
(***************************************************************************)
EXTENDS Integers, Sequences, FiniteSets, TLC

VARIABLES
    rewrite_enabled,   \* GtirbLanguageServer.rewrite_enabled
    server_remote,     \* GtirbLanguageServer.is_remote()
    documents,         \* ls.workspace documents: uri -> listing lines
    current_gtirbs,    \* uri -> IR held in memory
    current_indexes,   \* uri -> [obl, lbo] (offset_by_line, line_by_offset)
    modified_blocks,   \* uri -> set of blocks with pending edits
    path_map,          \* uris present in gtirbfile_path_map / indexfile_path_map
    gtirb_file,        \* the BIR file the server loads and overwrites
    client_gtirb,      \* the client's copy of the BIR file (remote mode)
    index_file,        \* the persisted JSON index
    pending,           \* handlers suspended on an await
    interleaved,       \* notifications handled since a did_save began to wait
    msgs,              \* show_message calls of the handler that ran last
    last,              \* what the handler that ran last did
    fn_in,             \* arguments of apply_changes_to_indexes called alone
    fn_out             \* its result

vars == <<rewrite_enabled, server_remote, documents, current_gtirbs,
          current_indexes, modified_blocks, path_map, gtirb_file,
          client_gtirb, index_file, pending, interleaved, msgs, last,
          fn_in, fn_out>>

server_vars == <<rewrite_enabled, server_remote, documents, current_gtirbs,
                 current_indexes, modified_blocks, path_map, gtirb_file,
                 client_gtirb, index_file, pending, interleaved, msgs, last>>

-----------------------------------------------------------------------------
(* Bounds of the model *)

\* At most this many did_save handlers wait for the client at a time.
MaxPending == 1
\* At most this many did_open handlers wait for the client at a time.
MaxFetching == 2
\* Listing lines are numbered 0 .. MaxLines - 1.
MaxLines == 3
\* A content change brings in at most MaxNew lines of text.
MaxNew == 2
\* Largest line number of an index handed to apply_changes_to_indexes alone.
MaxLineNo == 4
\* Largest number of text lines of a change handed to it alone.
MaxNewCount == 3

-----------------------------------------------------------------------------
(* The BIR: two byte blocks; rewriting a block changes its size *)

Blocks == {"b1", "b2"}
BlockSizes == {1, 2}
Addrs == 1 .. 4

\* Python's None, for a line number and for an address
NoLine == -1
NoEA == 0

block_address(b) == IF b = "b1" THEN 1 ELSE 3

InitialIR == [b \in Blocks |-> [size |-> IF b = "b1" THEN 2 ELSE 1]]

\* gtirb.Offset(element_id, displacement)
Offset(b, d) == <<b, d>>
Offsets == {Offset(b, d) : b \in Blocks, d \in 0 .. 1}

Min(S) == CHOOSE x \in S : \A y \in S : x <= y
Max(S) == CHOOSE x \in S : \A y \in S : x >= y

\* A dict built by assigning line_by_offset[offset] = line for the keys of
\* obl in ascending order: the largest line of an offset stays.
InverseOf(obl) ==
    [o \in {obl[l] : l \in DOMAIN obl} |-> Max({l \in DOMAIN obl : obl[l] = o})]

-----------------------------------------------------------------------------
(* apply_changes_to_indexes *)

\* update_line, the closure of apply_changes_to_indexes
update_line(line, start, end, new_count) ==
    LET old_count == (end + 1) - start
        growth == new_count - old_count
        least == IF new_count < old_count THEN new_count ELSE old_count
    IN  IF line < start + least THEN line
        ELSE IF line > end THEN line + growth
        ELSE NoLine

\* One iteration of "for start, end, text in changes": min() of an empty
\* index raises ValueError.
apply_one_change(obl, lbo, change) ==
    LET start == change.start
        end == change.end
        new_count == change.new_count
        growth == new_count - ((end + 1) - start)
        lines == DOMAIN obl
        new_lines == {update_line(line, start, end, new_count) :
                          line \in Min(lines) .. (Max(lines) + growth)}
        \* "if new_line and new_offset": line 0 and None are falsy,
        \* new_offset is offset_by_line.get(new_line)
        kept == {nl \in new_lines : nl /= NoLine /\ nl /= 0 /\ nl \in lines}
        new_obl == [nl \in kept |-> obl[nl]]
    IN  IF lines = {}
        THEN [raised |-> TRUE, obl |-> obl, lbo |-> lbo]
        ELSE [raised |-> FALSE, obl |-> new_obl, lbo |-> InverseOf(new_obl)]

RECURSIVE apply_changes_from(_, _, _, _)
apply_changes_from(obl, lbo, changes, i) ==
    IF i > Len(changes)
    THEN [raised |-> FALSE, obl |-> obl, lbo |-> lbo]
    ELSE LET r == apply_one_change(obl, lbo, changes[i])
         IN  IF r.raised THEN r
             ELSE apply_changes_from(r.obl, r.lbo, changes, i + 1)

\* apply_changes_to_indexes: an empty list of changes leaves
\* new_offset_by_line unbound at the return (UnboundLocalError).
apply_changes_to_indexes(obl, lbo, changes) ==
    IF Len(changes) = 0
    THEN [raised |-> TRUE, obl |-> obl, lbo |-> lbo]
    ELSE apply_changes_from(obl, lbo, changes, 1)

-----------------------------------------------------------------------------
(* The listing and the index built from it *)

URIS == {"u"}

\* A listing line: the address of its trailing "# EA: 0x..." comment (NoEA
\* when it has none) and whether any text is left of the first "#".
Line == [ea : {NoEA} \cup Addrs, code : BOOLEAN]

EmptyMap == [x \in {} |-> x]
Put(f, k, v) == (k :> v) @@ f
Del(f, k) == [x \in DOMAIN f \ {k} |-> f[x]]

\* The (address, line_number) list of get_line_offset after its stable sort
\* by address; line numbers count from 0 (enumerate).
RECURSIVE address_lines_from(_, _, _)
address_lines_from(lines, a, i) ==
    IF a > Max(Addrs) THEN <<>>
    ELSE IF i >= Len(lines) THEN address_lines_from(lines, a + 1, 0)
    ELSE (IF lines[i + 1].ea = a THEN << <<a, i>> >> ELSE <<>>)
             \o address_lines_from(lines, a, i + 1)

address_lines(lines) == address_lines_from(lines, Min(Addrs), 0)

\* ir.byte_blocks: the blocks in the order the IR yields them
byte_blocks(ir) ==
    IF "byte_blocks" \in DOMAIN ir THEN ir["byte_blocks"] ELSE <<"b1", "b2">>

\* address_to_uuid_displacement of get_line_offset: every byte of every
\* block that has an address; where blocks overlap, the entry of the block
\* that comes last in ir.byte_blocks stays.
address_to_uuid_displacement(ir) ==
    LET order == byte_blocks(ir)
        covering(a) == {i \in 1 .. Len(order) :
                           /\ block_address(order[i]) <= a
                           /\ a < block_address(order[i]) + ir[order[i]].size}
        covered == {a \in Addrs : covering(a) /= {}}
    IN  [a \in covered |->
            LET b == order[Max(covering(a))]
            IN  <<b, a - block_address(b)>>]

\* get_line_offset: indexing an address that no block covers raises KeyError.
get_line_offset(ir, lines) ==
    LET al == address_lines(lines)
        table == address_to_uuid_displacement(ir)
    IN  IF \E i \in 1 .. Len(al) : al[i][1] \notin DOMAIN table
        THEN [raised |-> TRUE, line_offsets |-> <<>>]
        ELSE [raised |-> FALSE,
              line_offsets |-> [i \in 1 .. Len(al) |-> <<al[i][2], table[al[i][1]]>>]]

\* line_offsets_to_maps: later list entries overwrite earlier ones in both maps.
RECURSIVE maps_from(_, _, _, _)
maps_from(line_offsets, i, obl, lbo) ==
    IF i > Len(line_offsets) THEN [obl |-> obl, lbo |-> lbo]
    ELSE maps_from(line_offsets, i + 1,
                   Put(obl, line_offsets[i][1], line_offsets[i][2]),
                   Put(lbo, line_offsets[i][2], line_offsets[i][1]))

line_offsets_to_maps(ir, line_offsets) == maps_from(line_offsets, 1, EmptyMap, EmptyMap)

\* A UUID written as the hex string of the first block, whichever it is
hex_of_first_block(b) == <<"hex", "b1">>

\* UUIDEncoder / json.dump and the reload in ensure_index: a UUID is stored
\* as its hex string and a pair as a list.
Hex(b) == <<"hex", b>>

\* A dump that stops after the first entry
json_dump_first(line_offsets) ==
    [i \in 1 .. Min({1, Len(line_offsets)}) |->
        <<line_offsets[i][1], <<Hex(line_offsets[i][2][1]), line_offsets[i][2][2]>> >>]

json_dump(line_offsets) ==
    [i \in 1 .. Len(line_offsets) |->
        <<line_offsets[i][1], <<Hex(line_offsets[i][2][1]), line_offsets[i][2][2]>> >>]
\* A reload that takes a file it cannot parse for an empty list
json_load_lenient(file) ==
    [raised |-> FALSE,
     line_offsets |->
        [i \in 1 .. Len(file.stored) |->
            <<file.stored[i][1], <<file.stored[i][2][1][2], file.stored[i][2][2]>> >>]]

\* json.load and the conversion of the hex strings raise on a file that
\* does not hold a list of (line, (hex, displacement)) entries
json_load(file) ==
    IF ~file.parses
    THEN [raised |-> TRUE, line_offsets |-> <<>>]
    ELSE [raised |-> FALSE,
          line_offsets |->
             [i \in 1 .. Len(file.stored) |->
                 <<file.stored[i][1], <<file.stored[i][2][1][2], file.stored[i][2][2]>> >>]]

NoFile == [exists |-> FALSE, ir |-> InitialIR]
\* A cache file opened for writing into which nothing was written
EmptyFile == [exists |-> TRUE, ir |-> EmptyMap]
NoIndexFile == [exists |-> FALSE, parses |-> FALSE, stored |-> <<>>]
\* A JSON index cut short while it was written
CorruptIndexFile == [exists |-> TRUE, parses |-> FALSE, stored |-> <<>>]

\* block_lines: the lines of the block's displacements; filter(None, ...)
\* drops a missing entry and line 0 alike.
RECURSIVE block_lines_from(_, _, _, _)
block_lines_from(lbo, b, size, i) ==
    IF i >= size THEN <<>>
    ELSE (IF Offset(b, i) \in DOMAIN lbo /\ lbo[Offset(b, i)] /= 0
          THEN <<lbo[Offset(b, i)]>> ELSE <<>>)
             \o block_lines_from(lbo, b, size, i + 1)

block_lines(lbo, b, size) == block_lines_from(lbo, b, size, 0)

\* block_text: asm_lines[line] raises IndexError past the end of the
\* listing; the text is "" when no line is joined or a single line has
\* nothing left of its "#".
block_text(lbo, b, size, asm_lines) ==
    LET ls == block_lines(lbo, b, size)
    IN  IF \E i \in 1 .. Len(ls) : ls[i] >= Len(asm_lines)
        THEN [raised |-> TRUE, empty |-> TRUE, lines |-> ls]
        ELSE [raised |-> FALSE,
              empty |-> Len(ls) = 0 \/ (Len(ls) = 1 /\ ~asm_lines[ls[1] + 1].code),
              lines |-> ls]

-----------------------------------------------------------------------------
(* State of the server *)

MsgIndexed == "indexing completed."
MsgDisabledWarning == "Warning: GTIRB rewriting is disabled"
MsgDisabled == "GTIRB rewriting is disabled"
MsgNotIndexed == "document not in indexes"
MsgNoPending == "no pending modifications"
MsgNoGtirb == "no GTIRB found"
MsgSuccess == "GTIRB rewritten successfully"
MsgNoBlocks == "No blocks to rewrite"
MsgAsmError == "assembly error"
MsgSkipping(b) == IF b = "b1" THEN "skipping b1 with empty assembly"
                  ELSE "skipping b2 with empty assembly"

\* What a handler did: op and outcome; for did_change the blocks the index
\* mapped the edited lines to; for did_save the dirty set it started from,
\* the dirty blocks whose listing text was empty then, the blocks whose
\* patch it applied, whether it wrote the BIR file, and the edited blocks of
\* a did_change that ran just before it.
Did(op, outcome, edited, dirty_before, empty_text, applied, wrote, after_edit) ==
    [op |-> op, outcome |-> outcome, edited |-> edited,
     dirty_before |-> dirty_before, empty_text |-> empty_text,
     applied |-> applied, wrote |-> wrote, after_edit |-> after_edit,
     text |-> <<>>, reopened |-> FALSE]


Plain(op, outcome) == Did(op, outcome, {}, {}, {}, {}, FALSE, {})

\* What did_close did.  When the handler before it was a did_open that
\* built the index from the text the document still has, or a did_save that
\* rewrote blocks, the record keeps the text of the document, that the
\* index was just built, and the blocks just rewritten.
Closed(outcome, text) ==
    LET built == /\ last.op = "open" /\ last.outcome \in {"built", "rebuilt"}
                 /\ last.text = text
        saved == IF last.op = "save" /\ last.outcome = "success" THEN last.applied ELSE {}
    IN  [Plain("close", outcome) EXCEPT
            !.text = IF built \/ saved /= {} THEN text ELSE <<>>,
            !.reopened = built,
            !.applied = saved]

\* What did_open did, with the text of the notification; when the handler
\* before it was the did_close of a document with this text, whether that
\* one followed the did_open that built the index, and the blocks rewritten
\* by the did_save it followed.
Opened(outcome, text) ==
    LET again == last.op = "close" /\ last.text = text
    IN  [Plain("open", outcome) EXCEPT
            !.text = text,
            !.reopened = again /\ last.reopened,
            !.applied = IF again THEN last.applied ELSE {}]

NoInput == [obl |-> EmptyMap, start |-> 0, end |-> 0, new_count |-> 0]
NoOutput == [done |-> FALSE, raised |-> FALSE, obl |-> EmptyMap, lbo |-> EmptyMap]

\* The listings did_open receives, as the pretty-printer writes them: a
\* banner line, the first instruction of the first block, then instruction
\* lines whose address comments never decrease down the listing.
Listings ==
    {ls \in [1 .. MaxLines -> {l \in Line : l.code}] :
        /\ ls[1].ea = NoEA
        /\ ls[2].ea = Min(Addrs)
        /\ \A i \in 2 .. MaxLines : ls[i].ea /= NoEA
        /\ \A i, j \in 2 .. MaxLines : i < j => ls[i].ea <= ls[j].ea}

\* The server starts with nothing cached.  In local mode the BIR file is
\* next to the listing's cache directory, or is not there and cannot be
\* loaded; in remote mode the cache file of the uri is not there yet.  The
\* JSON index of the listing is not there, or holds what an earlier run
\* left of it.
\* A server that takes rewriting to be enabled whatever the flag says
can_rewrite_always == TRUE

\* GtirbLanguageServer.can_rewrite
can_rewrite == rewrite_enabled

Init ==
    /\ rewrite_enabled \in BOOLEAN
    /\ server_remote \in BOOLEAN
    /\ documents = EmptyMap
    /\ current_gtirbs = EmptyMap
    /\ current_indexes = EmptyMap
    /\ modified_blocks = EmptyMap
    /\ path_map = {}
    /\ client_gtirb = [exists |-> TRUE, ir |-> InitialIR]
    /\ gtirb_file \in IF server_remote THEN {NoFile} ELSE {client_gtirb, NoFile}
    /\ index_file \in {NoIndexFile, CorruptIndexFile}
    /\ pending = {}
    /\ interleaved = 0
    /\ msgs = <<>>
    /\ last = Plain("none", "none")
    /\ fn_in = NoInput
    /\ fn_out = NoOutput

-----------------------------------------------------------------------------
(* Notifications and suspended handlers *)

\* While handlers wait for the client, the client sends at most this many
\* notifications.
MaxInterleaved == 2

\* One more notification is handled, while handlers wait or not
Notified ==
    /\ pending /= {} => interleaved < MaxInterleaved
    /\ interleaved' = IF pending = {} \/ pending' = {} THEN 0 ELSE interleaved + 1

\* A handler has resumed and ended
Resumed == interleaved' = IF pending' = {} THEN 0 ELSE interleaved

\* The handlers of one kind that wait for the client
Waiting(kind) == {p \in pending : p.kind = kind}

-----------------------------------------------------------------------------
(* did_open: configure_path_mapping, then ensure_index *)

\* gtirb.IR.load_protobuf raises on a file that is not there or holds no IR
load_protobuf_raises(file) == ~file.exists \/ file = EmptyFile

\* ensure_index once the BIR file is at its mapped path.  A BIR that does
\* not load ends it; a JSON index that is there and parses is reused;
\* otherwise the index is built from the text, which can raise, and
\* written to the JSON file, over a file that did not parse if there was one.
ensure_index(uri, text, file) ==
    IF load_protobuf_raises(file)
    THEN /\ current_gtirbs' = current_gtirbs
         /\ current_indexes' = current_indexes
         /\ index_file' = index_file
         /\ msgs' = <<>>
         /\ last' = Opened("load_failed", text)
    ELSE LET loaded == json_load(index_file)
             built == get_line_offset(file.ir, text)
         IN  /\ current_gtirbs' = Put(current_gtirbs, uri, file.ir)
             /\ IF index_file.exists /\ ~loaded.raised
                THEN /\ current_indexes' =
                            Put(current_indexes, uri,
                                line_offsets_to_maps(file.ir, loaded.line_offsets))
                     /\ index_file' = index_file
                     /\ msgs' = <<MsgIndexed>>
                     /\ last' = Opened("reused", text)
                ELSE IF built.raised
                THEN /\ current_indexes' = current_indexes
                     /\ index_file' = index_file
                     /\ msgs' = <<>>
                     /\ last' = Opened("raised", text)
                ELSE /\ current_indexes' =
                            Put(current_indexes, uri,
                                line_offsets_to_maps(file.ir, built.line_offsets))
                     /\ index_file' = [exists |-> TRUE, parses |-> TRUE,
                                       stored |-> json_dump(built.line_offsets)]
                     /\ msgs' = <<MsgIndexed>>
                     /\ last' = Opened(IF index_file.exists THEN "rebuilt" ELSE "built",
                                       text)

\* did_open in local mode: the BIR path is known at once.
did_open_local(uri, text) ==
    /\ ~server_remote
    /\ uri \notin DOMAIN documents
    /\ documents' = Put(documents, uri, text)
    /\ path_map' = path_map \cup {uri}
    /\ ensure_index(uri, text, gtirb_file)
    /\ UNCHANGED <<rewrite_enabled, server_remote, modified_blocks,
                   gtirb_file, client_gtirb, pending, fn_in, fn_out>>

\* base64.encodebytes and base64.decodebytes on the bytes of a BIR file
base64_encodebytes(data) == <<"base64", data>>
base64_decodebytes(text) == text[2]

\* A server that takes the cache file of the uri to be missing every time
cache_file_missing == TRUE

\* "not os.path.exists(remote_gtirbfile)" of configure_path_mapping
pull_needed == ~gtirb_file.exists

\* The id of the next request to the client
request_id == Min((1 .. MaxFetching) \ {p.id : p \in Waiting("open")})

\* did_open in remote mode: with the cache file there already it goes on
\* to ensure_index; without it configure_path_mapping asks the client for
\* the BIR and the handler is suspended until the answer comes.
did_open_remote(uri, text) ==
    /\ server_remote
    /\ uri \notin DOMAIN documents
    /\ documents' = Put(documents, uri, text)
    /\ IF ~pull_needed
       THEN /\ path_map' = path_map \cup {uri}
            /\ ensure_index(uri, text, gtirb_file)
            /\ UNCHANGED pending
       ELSE /\ Cardinality(Waiting("open")) < MaxFetching
            /\ pending' = pending \cup
                  {[kind |-> "open", id |-> request_id, uri |-> uri, text |-> text,
                    shown |-> <<>>,
                    sent |-> base64_encodebytes(InitialIR),
                    done |-> Plain("open", "suspended")]}
            /\ msgs' = <<>>
            /\ last' = Opened("suspended", text)
            /\ UNCHANGED <<path_map, current_gtirbs, current_indexes, index_file>>
    /\ UNCHANGED <<rewrite_enabled, server_remote, modified_blocks,
                   gtirb_file, client_gtirb, fn_in, fn_out>>

\* did_open resumes when the client answers the pull: with an error, which
\* raises out of the handler; with text that base64.decodebytes rejects,
\* which raises after the cache file was opened for writing; or with the
\* BIR, which is written to the cache file before the path maps are set
\* and ensure_index runs on the text of the notification.
did_open_resume(p) ==
    /\ p \in Waiting("open")
    /\ pending' = pending \ {p}
    /\ Resumed
    /\ \/ /\ msgs' = <<>>
          /\ last' = Opened("fetch_failed", p.text)
          /\ UNCHANGED <<gtirb_file, path_map, current_gtirbs, current_indexes,
                         index_file>>
       \/ /\ gtirb_file' = EmptyFile
          /\ msgs' = <<>>
          /\ last' = Opened("decode_failed", p.text)
          /\ UNCHANGED <<path_map, current_gtirbs, current_indexes, index_file>>
       \/ LET result == [text |-> base64_encodebytes(client_gtirb.ir)]
              gtirb_data == base64_decodebytes(result.text)
              remote_gtirbfile == [exists |-> TRUE, ir |-> gtirb_data]
          IN  /\ gtirb_file' = remote_gtirbfile
              /\ path_map' = path_map \cup {p.uri}
              /\ ensure_index(p.uri, p.text, remote_gtirbfile)
    /\ UNCHANGED <<rewrite_enabled, server_remote, documents, modified_blocks,
                   client_gtirb, fn_in, fn_out>>

\* did_close: the workspace drops the document, the handler drops its caches.
did_close(uri) ==
    /\ uri \in DOMAIN documents
    /\ documents' = Del(documents, uri)
    /\ modified_blocks' = Del(modified_blocks, uri)
    /\ current_indexes' = Del(current_indexes, uri)
    /\ IF uri \in DOMAIN current_indexes
       THEN /\ current_gtirbs' = Del(current_gtirbs, uri)
            /\ last' = Closed(IF uri \in DOMAIN current_gtirbs
                               THEN "removed" ELSE "raised", documents[uri])
       ELSE /\ current_gtirbs' = current_gtirbs
            /\ last' = Closed("nothing", documents[uri])
    /\ msgs' = <<>>
    /\ UNCHANGED <<rewrite_enabled, server_remote, path_map,
                   gtirb_file, client_gtirb, index_file, pending, fn_in, fn_out>>

-----------------------------------------------------------------------------
(* did_change *)

\* The workspace applies a content change before the handler runs: lines
\* start .. end of the listing give way to the lines of the change.
replace_lines(lines, c) ==
    SubSeq(lines, 1, c.start) \o c.lines \o SubSeq(lines, c.end + 2, Len(lines))

RECURSIVE apply_edits(_, _, _)
apply_edits(lines, changes, i) ==
    IF i > Len(changes) THEN lines
    ELSE apply_edits(replace_lines(lines, changes[i]), changes, i + 1)

\* What an edit leaves of lines start .. end: the first line keeps the
\* address comment of line start, with an instruction before it or nothing;
\* the lines after the first are instructions with no address comment.
EditedLines(lines, start) ==
    {ls \in UNION {[1 .. n -> Line] : n \in 1 .. MaxNew} :
        /\ ls[1].ea = lines[start + 1].ea
        /\ \A i \in 2 .. Len(ls) : ls[i].ea = NoEA /\ ls[i].code}

\* The content changes a client can send for a listing: a range of lines,
\* the lines that stand there afterwards, and len(text.splitlines()), which
\* is their number, or 0 when the text of a one-line change is empty.
Changes(lines) ==
    {c \in [start : 0 .. Len(lines) - 1, end : 0 .. Len(lines) - 1,
            lines : UNION {EditedLines(lines, s) : s \in 0 .. Len(lines) - 1},
            new_count : 0 .. MaxNew] :
        /\ c.start <= c.end
        /\ c.lines \in EditedLines(lines, c.start)
        /\ c.new_count \in {Len(c.lines)} \cup (IF Len(c.lines) = 1 THEN {0} ELSE {})
        /\ Len(lines) - (c.end + 1 - c.start) + Len(c.lines) <= MaxLines}

ChangeEvents(lines) == {<<>>} \cup {<<c>> : c \in Changes(lines)}

\* The blocks the index maps the lines of the changes to
edited_blocks(obl, changes) ==
    {obl[l][1] : l \in {l \in DOMAIN obl :
                          \E i \in 1 .. Len(changes) :
                              changes[i].start <= l /\ l <= changes[i].end}}

\* "Track the blocks modified by the edit": the loop over the changes and
\* their lines; a block met for the first time has its text logged, and
\* block_text can raise there.
RECURSIVE track_edits(_, _, _, _, _, _, _)
track_edits(index, ir, lines, changes, i, line, dirty) ==
    IF i > Len(changes) THEN [raised |-> FALSE, dirty |-> dirty]
    ELSE IF line > changes[i].end
    THEN IF i + 1 > Len(changes) THEN [raised |-> FALSE, dirty |-> dirty]
         ELSE track_edits(index, ir, lines, changes, i + 1, changes[i + 1].start, dirty)
    ELSE IF line \notin DOMAIN index.obl
    THEN track_edits(index, ir, lines, changes, i, line + 1, dirty)
    ELSE LET b == index.obl[line][1]
         IN  IF b \notin dirty /\ block_text(index.lbo, b, ir[b].size, lines).raised
             THEN [raised |-> TRUE, dirty |-> dirty]
             ELSE track_edits(index, ir, lines, changes, i, line + 1, dirty \cup {b})

\* The list handed to apply_changes_to_indexes:
\* (range.start.line, range.end.line + 1, text)
index_changes(changes) ==
    [i \in 1 .. Len(changes) |->
        [start |-> changes[i].start, end |-> changes[i].end + 1,
         new_count |-> changes[i].new_count]]

did_change(uri, changes) ==
    LET lines == apply_edits(documents[uri], changes, 1)
        had == IF uri \in DOMAIN modified_blocks THEN modified_blocks[uri] ELSE {}
        edited == IF uri \in DOMAIN current_indexes
                  THEN edited_blocks(current_indexes[uri].obl, changes) ELSE {}
    IN  /\ documents' = Put(documents, uri, lines)
        /\ IF ~can_rewrite
           THEN /\ msgs' = <<MsgDisabledWarning>>
                /\ last' = Did("change", "disabled", edited, {}, {}, {}, FALSE, {})
                /\ UNCHANGED <<modified_blocks, current_indexes>>
           ELSE IF uri \notin DOMAIN current_indexes
           THEN /\ modified_blocks' = Put(modified_blocks, uri, had)
                /\ msgs' = <<MsgNotIndexed>>
                /\ last' = Did("change", "not_indexed", edited, {}, {}, {}, FALSE, {})
                /\ UNCHANGED current_indexes
           ELSE LET index == current_indexes[uri]
                    tracked == track_edits(index, current_gtirbs[uri], lines, changes, 1,
                                           IF Len(changes) = 0 THEN 0 ELSE changes[1].start,
                                           had)
                    updated == apply_changes_to_indexes(index.obl, index.lbo,
                                                        index_changes(changes))
                IN  /\ modified_blocks' = Put(modified_blocks, uri, tracked.dirty)
                    /\ msgs' = <<>>
                    /\ IF tracked.raised \/ updated.raised
                       THEN /\ current_indexes' = current_indexes
                            /\ last' = Did("change", "raised", edited, {}, {}, {}, FALSE, {})
                       ELSE /\ current_indexes' =
                                   Put(current_indexes, uri,
                                       [obl |-> updated.obl, lbo |-> updated.lbo])
                            /\ last' = Did("change", "stored", edited, {}, {}, {}, FALSE, {})

DidChange(uri) ==
    /\ uri \in DOMAIN documents
    /\ \E changes \in ChangeEvents(documents[uri]) : did_change(uri, changes)
    /\ UNCHANGED <<rewrite_enabled, server_remote, current_gtirbs,
                   path_map, gtirb_file, client_gtirb, index_file, pending,
                   fn_in, fn_out>>
    /\ Notified

-----------------------------------------------------------------------------
(* did_save *)

\* The orders in which "for block in modified_blocks[uri]" can visit a set
Orders(S) ==
    {o \in [1 .. Cardinality(S) -> S] :
        \A i, j \in 1 .. Cardinality(S) : i /= j => o[i] /= o[j]}

\* A loop that registers every dirty block, empty text or not
RECURSIVE collect_every_block(_, _, _, _, _)
collect_every_block(order, i, lbo, ir, lines) ==
    IF i > Len(order) THEN [raised |-> FALSE, msgs |-> <<>>, blocks |-> {}]
    ELSE LET t == block_text(lbo, order[i], ir[order[i]].size, lines)
             rest == collect_every_block(order, i + 1, lbo, ir, lines)
         IN  IF t.raised THEN [raised |-> TRUE, msgs |-> <<>>, blocks |-> {}]
             ELSE [raised |-> rest.raised, msgs |-> rest.msgs,
                   blocks |-> {order[i]} \cup rest.blocks]

\* The loop that collects the blocks to rewrite: a block with empty text is
\* skipped with a message, any other is registered with the rewriting
\* context; block_text can raise on the way.
RECURSIVE collect_blocks(_, _, _, _, _)
collect_blocks(order, i, lbo, ir, lines) ==
    IF i > Len(order) THEN [raised |-> FALSE, msgs |-> <<>>, blocks |-> {}]
    ELSE LET t == block_text(lbo, order[i], ir[order[i]].size, lines)
             rest == collect_blocks(order, i + 1, lbo, ir, lines)
         IN  IF t.raised THEN [raised |-> TRUE, msgs |-> <<>>, blocks |-> {}]
             ELSE IF t.empty
             THEN [raised |-> rest.raised, msgs |-> <<MsgSkipping(order[i])>> \o rest.msgs,
                   blocks |-> rest.blocks]
             ELSE [raised |-> rest.raised, msgs |-> rest.msgs,
                   blocks |-> {order[i]} \cup rest.blocks]

\* ctx.apply(): every registered block gets the bytes its text assembles to
rewritten(ir, sizes) ==
    [b \in Blocks |-> IF b \in DOMAIN sizes
                      THEN [size |-> sizes[b]] ELSE ir[b]]

\* "del modified_blocks[uri]" inside the try: a missing key raises KeyError,
\* which the except clause reports as an assembly error.
clear_modified(uri, shown, done) ==
    IF uri \in DOMAIN modified_blocks
    THEN /\ modified_blocks' = Del(modified_blocks, uri)
         /\ msgs' = shown
         /\ last' = done
    ELSE /\ modified_blocks' = modified_blocks
         /\ msgs' = shown \o <<MsgAsmError>>
         /\ last' = [done EXCEPT !.outcome = "success_then_error"]

\* A server that never takes itself to be remote
is_remote_never == FALSE

\* GtirbLanguageServer.is_remote
is_remote == server_remote

did_save(uri) ==
    LET after_edit == IF last.op = "change" THEN last.edited ELSE {}
        quit(outcome, shown) ==
            /\ msgs' = shown
            /\ last' = Did("save", outcome, {}, {}, {}, {}, FALSE, after_edit)
            /\ UNCHANGED <<modified_blocks, current_gtirbs, gtirb_file, pending>>
    IN  IF ~can_rewrite THEN quit("disabled", <<MsgDisabled>>)
        ELSE IF uri \notin DOMAIN modified_blocks \/ modified_blocks[uri] = {}
        THEN quit("no_pending", <<MsgNoPending>>)
        ELSE IF uri \notin DOMAIN current_gtirbs
        THEN quit("no_gtirb", <<MsgNoGtirb>>)
        ELSE IF uri \notin DOMAIN current_indexes
        THEN quit("raised", <<>>)
        ELSE
        \E order \in Orders(modified_blocks[uri]) :
          LET dirty == modified_blocks[uri]
              ir == current_gtirbs[uri]
              got == collect_blocks(order, 1, current_indexes[uri].lbo, ir,
                                    documents[uri])
              empty_text ==
                  {b \in dirty : block_text(current_indexes[uri].lbo, b, ir[b].size,
                                            documents[uri]).empty}
              did(outcome, applied, wrote) ==
                  Did("save", outcome, {}, dirty, empty_text, applied, wrote, after_edit)
          IN  IF got.raised
              THEN /\ msgs' = got.msgs
                   /\ last' = did("raised", {}, FALSE)
                   /\ UNCHANGED <<modified_blocks, current_gtirbs, gtirb_file, pending>>
              ELSE IF got.blocks = {}
              THEN /\ clear_modified(uri, got.msgs \o <<MsgNoBlocks>>,
                                     did("no_blocks", {}, FALSE))
                   /\ UNCHANGED <<current_gtirbs, gtirb_file, pending>>
              ELSE
              \* ctx.apply() raises (the assembler rejects the text) ...
              \/ /\ msgs' = got.msgs \o <<MsgAsmError>>
                 /\ last' = did("error", {}, FALSE)
                 /\ UNCHANGED <<modified_blocks, current_gtirbs, gtirb_file, pending>>
              \* ... or rewrites the blocks in the IR, which is then saved
              \/ \E sizes \in [got.blocks -> BlockSizes] :
                   LET new_ir == rewritten(ir, sizes)
                   IN  /\ current_gtirbs' = Put(current_gtirbs, uri, new_ir)
                       /\ gtirb_file' = [exists |-> TRUE, ir |-> new_ir]
                       /\ IF is_remote
                          THEN \* suspended on push_gtirb_content_async
                               /\ pending' = pending \cup
                                     {[kind |-> "save", id |-> 0, uri |-> uri,
                                       text |-> <<>>,
                                       shown |-> got.msgs,
                                       sent |-> base64_encodebytes(gtirb_file'.ir),
                                       done |-> did("success", got.blocks, TRUE)]}
                               /\ msgs' = got.msgs
                               /\ last' = did("suspended", got.blocks, TRUE)
                               /\ UNCHANGED modified_blocks
                          ELSE /\ clear_modified(uri, got.msgs \o <<MsgSuccess>>,
                                                 did("success", got.blocks, TRUE))
                               /\ UNCHANGED pending


DidSave(uri) ==
    /\ uri \in DOMAIN documents
    /\ Cardinality(Waiting("save")) < MaxPending
    /\ did_save(uri)
    /\ Notified
    /\ UNCHANGED <<rewrite_enabled, server_remote, documents, current_indexes,
                   path_map, client_gtirb, index_file, fn_in, fn_out>>

\* did_save resumes when the client answers the push: with an error, which
\* the except clause reports, or with success.
did_save_resume(p) ==
    /\ p \in Waiting("save")
    /\ pending' = pending \ {p}
    /\ Resumed
    /\ \/ /\ msgs' = p.shown \o <<MsgAsmError>>
          /\ last' = [p.done EXCEPT !.outcome = "error"]
          /\ UNCHANGED <<modified_blocks, client_gtirb>>
       \/ /\ client_gtirb' = [exists |-> TRUE, ir |-> base64_decodebytes(p.sent)]
          /\ clear_modified(p.uri, p.shown \o <<MsgSuccess>>, p.done)
    /\ UNCHANGED <<rewrite_enabled, server_remote, documents,
                   current_gtirbs, current_indexes, path_map, gtirb_file,
                   index_file, fn_in, fn_out>>

-----------------------------------------------------------------------------
(* The server *)

DidOpen(uri) ==
    /\ \E text \in Listings : did_open_local(uri, text) \/ did_open_remote(uri, text)
    /\ Notified

DidClose(uri) == did_close(uri) /\ Notified

Next ==
    \/ \E uri \in URIS : DidOpen(uri)
    \/ \E uri \in URIS : DidChange(uri)
    \/ \E uri \in URIS : DidSave(uri)
    \/ \E p \in pending : did_open_resume(p)
    \/ \E p \in pending : did_save_resume(p)
    \/ \E uri \in URIS : DidClose(uri)

Spec == Init /\ [][Next]_vars

-----------------------------------------------------------------------------
(* apply_changes_to_indexes on its own: one call on an index and a change *)

\* The indexes of a listing whose lines carry distinct addresses, with the
\* inverse map that line_offsets_to_maps builds beside them
IndexMaps ==
    {m \in UNION {[D -> Offsets] : D \in SUBSET (0 .. MaxLineNo)} :
        \A l1, l2 \in DOMAIN m : m[l1] = m[l2] => l1 = l2}

ApplyInputs ==
    {i \in [obl : IndexMaps, start : 0 .. MaxLineNo, end : 0 .. MaxLineNo,
            new_count : 0 .. MaxNewCount] : i.start <= i.end}

InitApply ==
    /\ rewrite_enabled = TRUE
    /\ server_remote = FALSE
    /\ documents = EmptyMap
    /\ current_gtirbs = EmptyMap
    /\ current_indexes = EmptyMap
    /\ modified_blocks = EmptyMap
    /\ path_map = {}
    /\ client_gtirb = [exists |-> TRUE, ir |-> InitialIR]
    /\ gtirb_file = client_gtirb
    /\ index_file = NoIndexFile
    /\ pending = {}
    /\ interleaved = 0
    /\ msgs = <<>>
    /\ last = Plain("none", "none")
    /\ fn_in \in ApplyInputs
    /\ fn_out = NoOutput

ApplyChanges ==
    /\ ~fn_out.done
    /\ LET r == apply_changes_to_indexes(
                    fn_in.obl, InverseOf(fn_in.obl),
                    <<[start |-> fn_in.start, end |-> fn_in.end,
                       new_count |-> fn_in.new_count]>>)
       IN  fn_out' = [done |-> TRUE, raised |-> r.raised, obl |-> r.obl, lbo |-> r.lbo]
    /\ UNCHANGED <<server_vars, fn_in>>

SpecApply == InitApply /\ [][ApplyChanges]_vars

\* The call returned, for a change with old_count = end + 1 - start
Returned == fn_out.done /\ ~fn_out.raised
OldCount == fn_in.end + 1 - fn_in.start

\* C1: a change whose text has k > 0 fewer lines than end + 1 - start loses
\* exactly the entries of the k removed lines, moves every entry at a line
\* l > end to line l - k with its Offset, and keeps the entries before the
\* range.  Stated for the indexes that have no entry at line 0 and the
\* changes that start after line 0, so that no entry is due at line 0.
C1_ShrinkShiftsTail ==
    LET k == OldCount - fn_in.new_count
        before == fn_in.obl
        after == fn_out.obl
        head == {l \in DOMAIN before : l < fn_in.start + fn_in.new_count}
        tail == {l \in DOMAIN before : l > fn_in.end}
    IN  (Returned /\ k > 0 /\ 0 \notin DOMAIN before /\ fn_in.start > 0) =>
            /\ DOMAIN after = head \cup {l - k : l \in tail}
            /\ \A l \in head : after[l] = before[l]
            /\ \A l \in tail : after[l - k] = before[l]

\* C2: a change whose text has k > 0 more lines than end + 1 - start moves
\* every entry at a line l > end to line l + k with its Offset, gives the k
\* inserted lines no entry, and loses no other entry.  Stated for the indexes
\* that have no entry at line 0.
C2_GrowShiftsTail ==
    LET k == fn_in.new_count - OldCount
        before == fn_in.obl
        after == fn_out.obl
        head == {l \in DOMAIN before : l <= fn_in.end}
        tail == {l \in DOMAIN before : l > fn_in.end}
    IN  (Returned /\ k > 0 /\ 0 \notin DOMAIN before) =>
            /\ DOMAIN after = head \cup {l + k : l \in tail}
            /\ \A l \in head : after[l] = before[l]
            /\ \A l \in tail : after[l + k] = before[l]

\* C3: a change whose text has exactly end + 1 - start lines returns a line
\* map with the keys and the Offsets of its input.
C3_SameSizeKeepsMap ==
    (Returned /\ fn_in.new_count = OldCount) => fn_out.obl = fn_in.obl

-----------------------------------------------------------------------------
(* The server's handlers *)

\* How many times a message was posted
Count(shown, m) == Cardinality({i \in DOMAIN shown : shown[i] = m})

\* The addresses that lie inside some block of an IR
InsideSomeBlock(ir) == DOMAIN address_to_uuid_displacement(ir)

\* C4: the two maps of every open document's index are mutual inverses,
\* listings with two lines at one address included.
C4_IndexMapsAreInverse ==
    \A uri \in DOMAIN current_indexes :
        LET obl == current_indexes[uri].obl
            lbo == current_indexes[uri].lbo
        IN  /\ \A l \in DOMAIN obl : obl[l] \in DOMAIN lbo /\ lbo[obl[l]] = l
            /\ \A o \in DOMAIN lbo : lbo[o] \in DOMAIN obl /\ obl[lbo[o]] = o

\* C5: a did_open that builds the index from the listing indexes exactly
\* the lines whose address lies inside some block of the BIR; a line with no
\* marker or with an address in no block is left out and the open goes on.
C5_OpenIndexesCoveredLines ==
    \A uri \in URIS :
        (last.op = "open" /\ last.outcome \in {"built", "rebuilt", "raised"}) =>
            /\ uri \in DOMAIN current_indexes
            /\ DOMAIN current_indexes[uri].obl =
                   {l \in 0 .. Len(last.text) - 1 :
                       last.text[l + 1].ea \in InsideSomeBlock(current_gtirbs[uri])}

\* C6: every Offset in the index of an open document names a block of the
\* loaded BIR and has 0 <= displacement < block.size.
C6_OffsetsInsideBlocks ==
    \A uri \in DOMAIN current_indexes :
        uri \in DOMAIN current_gtirbs =>
            \A l \in DOMAIN current_indexes[uri].obl :
                LET o == current_indexes[uri].obl[l]
                IN  /\ o[1] \in Blocks
                    /\ 0 <= o[2]
                    /\ o[2] < current_gtirbs[uri][o[1]].size

\* did_save posted 'GTIRB rewritten successfully'
SaveSucceeded == last.op = "save" /\ last.outcome \in {"success", "success_then_error"}

C8_FailedSaveWritesNothing ==
    \A uri \in URIS :
        (last.op = "save" /\ last.outcome = "error") =>
            /\ ~last.wrote
            /\ uri \in DOMAIN modified_blocks
            /\ modified_blocks[uri] = last.dirty_before

\* C9: a did_save on a non-empty dirty set either applies the patch of every
\* dirty block and persists the BIR, or changes no block, persists nothing
\* and keeps the dirty set.
C9_SaveIsAllOrNothing ==
    \A uri \in URIS :
        (last.op = "save" /\ last.dirty_before /= {} /\ last.outcome /= "suspended") =>
            \/ /\ last.applied = last.dirty_before
               /\ last.wrote
            \/ /\ last.applied = {}
               /\ ~last.wrote
               /\ uri \in DOMAIN modified_blocks
               /\ modified_blocks[uri] = last.dirty_before

\* C10 as stated: with rewriting disabled, the did_save that follows a
\* did_change on an indexed line posts the diagnostic, writes nothing and
\* leaves the edited block in the dirty set.
C10_DisabledKeepsDirtySet ==
    \A uri \in URIS :
        (~rewrite_enabled /\ last.op = "save" /\ last.after_edit /= {}) =>
            /\ msgs = <<MsgDisabled>>
            /\ ~last.wrote
            /\ uri \in DOMAIN modified_blocks
            /\ last.after_edit \subseteq modified_blocks[uri]

\* C10 amended: with rewriting disabled, a did_change posts 'Warning: GTIRB
\* rewriting is disabled' and records no block; the did_save that follows a
\* did_change on an indexed line posts 'GTIRB rewriting is disabled' and
\* writes nothing; no document ever has a dirty set and the BIR file never
\* holds a rewritten IR.
C10_DisabledRecordsNothing ==
    ~rewrite_enabled =>
        /\ modified_blocks = EmptyMap
        /\ gtirb_file.exists => gtirb_file.ir \in {InitialIR, EmptyFile.ir}
        /\ last.op = "change" => msgs = <<MsgDisabledWarning>>
        /\ (last.op = "save" /\ last.after_edit /= {}) =>
               msgs = <<MsgDisabled>> /\ ~last.wrote

\* A disabled server saved right after an edit of an indexed line
C10_DisabledSaveAfterEdit ==
    ~rewrite_enabled /\ last.op = "save" /\ last.after_edit /= {}

-----------------------------------------------------------------------------
(* did_close, did_open and the persisted index *)

\* The uri has no entry in current_gtirbs, current_indexes or modified_blocks
NoSessionState(uri) ==
    /\ uri \notin DOMAIN current_gtirbs
    /\ uri \notin DOMAIN current_indexes
    /\ uri \notin DOMAIN modified_blocks

\* C11: once did_close(uri) has completed, the uri has no entry in the
\* cached BIRs, the cached indexes or the dirty-block map, whatever came
\* before the close.
C11_CloseDropsAllState ==
    last.op = "close" => \A uri \in URIS \ DOMAIN documents : NoSessionState(uri)

\* C12: the events of one uri take effect in the order they arrive, a
\* suspended handler included: a did_close that arrives while did_open waits
\* for the BIR from the client takes effect after the did_open, so once the
\* did_open has completed on a document that was closed meanwhile, the uri
\* has no session state.
C12_EventsInArrivalOrder ==
    \A uri \in URIS :
        (/\ last.op = "open"
         /\ last.outcome /= "suspended"
         /\ Waiting("open") = {}
         /\ uri \notin DOMAIN documents)
        => NoSessionState(uri)

\* The cache test of get_definition and get_references: either map lacks
\* the uri, ' is not currently cached.' is shown and None returned
not_cached(uri) == uri \notin DOMAIN current_indexes \/ uri \notin DOMAIN current_gtirbs

\* The cache test of get_hover: current_gtirbs lacks the uri, ' has not been
\* indexed yet.' is shown and None returned
not_indexed_yet(uri) == uri \notin DOMAIN current_gtirbs

\* did_open ended without an index because the BIR did not load or the
\* client did not deliver it
OpenFailed == last.op = "open" /\ last.outcome \in {"load_failed", "fetch_failed"}

\* C13: when did_open fails because the BIR cannot be loaded or the pull
\* from the client fails, the uri has no entry in the cached BIRs or the
\* cached indexes, and a navigation request that follows is answered with
\* None and the 'not cached' message.
C13_FailedOpenLeavesNoEntry ==
    OpenFailed =>
        \A uri \in URIS :
            /\ uri \notin DOMAIN current_gtirbs
            /\ uri \notin DOMAIN current_indexes
            /\ not_cached(uri)
            /\ not_indexed_yet(uri)

C15_ReopenReusesPersistedIndex ==
    \A uri \in URIS :
        (last.op = "open" /\ last.reopened) =>
            /\ last.outcome = "reused"
            /\ uri \in DOMAIN current_gtirbs /\ uri \in DOMAIN current_indexes
            /\ current_indexes[uri] =
                   line_offsets_to_maps(
                       current_gtirbs[uri],
                       get_line_offset(current_gtirbs[uri], last.text).line_offsets)
            /\ json_load(index_file).line_offsets =
                   get_line_offset(current_gtirbs[uri], last.text).line_offsets
            /\ msgs = <<MsgIndexed>>

\* A document with two indexed lines reopened in remote mode (reopening in
\* local mode takes the same path through ensure_index)
C15_ReopenedRemote ==
    /\ server_remote /\ last.op = "open" /\ last.reopened
    /\ \E uri \in URIS : uri \in DOMAIN current_indexes
                          /\ Cardinality(DOMAIN current_indexes[uri].lbo) = 2

\* Every entry of the index names a byte of a block of the BIR, and the
\* lines of the text that carry the address of a byte of a block are
\* indexed at that byte.
consistent(index, ir, text) ==
    LET table == address_to_uuid_displacement(ir)
    IN  /\ \A l \in DOMAIN index.obl :
               /\ l < Len(text)
               /\ text[l + 1].ea \in DOMAIN table
               /\ index.obl[l] = table[text[l + 1].ea]
        /\ \A l \in 0 .. Len(text) - 1 :
               text[l + 1].ea \in DOMAIN table => l \in DOMAIN index.obl
        /\ \A o \in DOMAIN index.lbo :
               index.lbo[o] \in DOMAIN index.obl /\ index.obl[index.lbo[o]] = o

\* C16: a persisted index is reloaded only if it is consistent with the
\* document being opened: after a did_change, a successful did_save and a
\* did_close, a did_open of the edited listing installs no index whose
\* lines or Offsets disagree with the text and the BIR.
C16_ReloadedIndexIsConsistent ==
    \A uri \in URIS :
        (/\ last.op = "open" /\ last.applied /= {}
         /\ uri \in DOMAIN current_indexes /\ uri \in DOMAIN current_gtirbs)
        => consistent(current_indexes[uri], current_gtirbs[uri], last.text)

-----------------------------------------------------------------------------
(* offset_to_line on its own: one call on a line_by_offset map and an Offset *)

\* Largest displacement of the maps and the Offsets handed to offset_to_line
MaxDisp == 6

DISPLACEMENT_INTERVAL == 5

\* "for i in range(d, max(-1, d - DISPLACEMENT_INTERVAL), -1)": the first i
\* whose entry passes "if line and isinstance(line, int)"; a missing entry
\* and line 0 are falsy.
RECURSIVE offset_to_line_from(_, _, _, _)
offset_to_line_from(line_by_offset, b, i, stop) ==
    IF i <= stop THEN NoLine
    ELSE IF Offset(b, i) \in DOMAIN line_by_offset /\ line_by_offset[Offset(b, i)] /= 0
    THEN line_by_offset[Offset(b, i)]
    ELSE offset_to_line_from(line_by_offset, b, i - 1, stop)

offset_to_line(line_by_offset, offset) ==
    offset_to_line_from(line_by_offset, offset[1], offset[2],
                        Max({-1, offset[2] - DISPLACEMENT_INTERVAL}))

\* line_by_offset maps with entries for bytes of block b1, on lines 0 and 1
LookupMaps ==
    UNION {[D -> 0 .. 1] : D \in SUBSET {Offset("b1", d) : d \in 0 .. MaxDisp}}

LookupInputs ==
    [line_by_offset : LookupMaps,
     offset : {Offset(b, d) : b \in Blocks, d \in 0 .. MaxDisp}]

\* The server with nothing open
Idle ==
    /\ rewrite_enabled = TRUE
    /\ server_remote = FALSE
    /\ documents = EmptyMap
    /\ current_gtirbs = EmptyMap
    /\ current_indexes = EmptyMap
    /\ modified_blocks = EmptyMap
    /\ path_map = {}
    /\ client_gtirb = [exists |-> TRUE, ir |-> InitialIR]
    /\ gtirb_file = client_gtirb
    /\ index_file = NoIndexFile
    /\ pending = {}
    /\ interleaved = 0
    /\ msgs = <<>>
    /\ last = Plain("none", "none")

InitLookup ==
    /\ Idle
    /\ fn_in \in LookupInputs
    /\ fn_out = [done |-> FALSE, line |-> NoLine]

OffsetToLine ==
    /\ ~fn_out.done
    /\ fn_out' = [done |-> TRUE, line |-> offset_to_line(fn_in.line_by_offset, fn_in.offset)]
    /\ UNCHANGED <<server_vars, fn_in>>

SpecLookup == InitLookup /\ [][OffsetToLine]_vars

\* C17: offset_to_line(line_by_offset, (block, d)) returns the line of
\* (block, d') for the largest d' with max(0, d - 5) <= d' <= d that the map
\* holds, and nothing only when the map holds no such d'.
C17_LookupWithinFiveBytes ==
    fn_out.done =>
        LET b == fn_in.offset[1]
            d == fn_in.offset[2]
            held == {e \in Max({0, d - 5}) .. d : Offset(b, e) \in DOMAIN fn_in.line_by_offset}
        IN  IF held = {} THEN fn_out.line = NoLine
            ELSE fn_out.line = fn_in.line_by_offset[Offset(b, Max(held))]

-----------------------------------------------------------------------------
(* get_definition on a cached document, for a token that names a symbol *)

\* Lines of the listings handed to get_definition
MaxDefLines == 3

\* A listing line as preceding_function_line reads it: whether name_re
\* (the token followed by ":") matches it, and whether addr_re (an
\* "# EA: 0x..." comment at its end) does.
DefLine == [label : BOOLEAN, ea : BOOLEAN]

\* first_line_for_uuid: the lowest line whose Offset is in the block
first_line_for_uuid(offset_by_line, b) ==
    LET lines == {l \in DOMAIN offset_by_line : offset_by_line[l][1] = b}
    IN  IF lines = {} THEN NoLine ELSE Min(lines)

\* preceding_function_line: "for i in range(1, line)" looks at the lines
\* line - 1 down to 1 and returns the first that name_re matches, or None
\* at the first that addr_re matches or when the range is used up.
RECURSIVE preceding_function_line_from(_, _, _)
preceding_function_line_from(current_lines, line, i) ==
    IF i >= line THEN NoLine
    ELSE IF current_lines[(line - i) + 1].label THEN line - i
    ELSE IF current_lines[(line - i) + 1].ea THEN NoLine
    ELSE preceding_function_line_from(current_lines, line, i + 1)

preceding_function_line(current_lines, line) ==
    preceding_function_line_from(current_lines, line, 1)

\* get_definition from "line = first_line_for_uuid(...)" on, for a token
\* whose symbol refers to block b: None with ' no definition found' when
\* the block has no line; current_lines[line] raises TypeError when
\* preceding_function_line has returned None.
get_definition(offset_by_line, current_lines, b) ==
    LET first == first_line_for_uuid(offset_by_line, b)
        line == preceding_function_line(current_lines, first)
    IN  IF first = NoLine THEN [outcome |-> "none", line |-> NoLine]
        ELSE IF line = NoLine THEN [outcome |-> "raised", line |-> NoLine]
        ELSE [outcome |-> "location", line |-> line]

\* The indexes of a listing: lines that carry an address comment, each at
\* an Offset
DefinitionInputs ==
    {i \in [current_lines : UNION {[1 .. n -> DefLine] : n \in 1 .. MaxDefLines},
            offset_by_line : UNION {[D -> Offsets] : D \in SUBSET (0 .. MaxDefLines - 1)},
            block : Blocks] :
        \A l \in DOMAIN i.offset_by_line :
            l < Len(i.current_lines) /\ i.current_lines[l + 1].ea}

InitDefinition ==
    /\ Idle
    /\ fn_in \in DefinitionInputs
    /\ fn_out = [done |-> FALSE, outcome |-> "none", line |-> NoLine]

GetDefinition ==
    /\ ~fn_out.done
    /\ LET r == get_definition(fn_in.offset_by_line, fn_in.current_lines, fn_in.block)
       IN  fn_out' = [done |-> TRUE, outcome |-> r.outcome, line |-> r.line]
    /\ UNCHANGED <<server_vars, fn_in>>

SpecDefinition == InitDefinition /\ [][GetDefinition]_vars

\* C18: for a token naming a symbol whose block has at least one indexed
\* line, get_definition returns a Location: on the label line that
\* preceding_function_line finds above the block's first indexed line, and
\* on the block's first indexed line when it finds none.
C18_DefinitionIsLabelOrFirstLine ==
    LET first == first_line_for_uuid(fn_in.offset_by_line, fn_in.block)
        label == preceding_function_line(fn_in.current_lines, first)
    IN  (fn_out.done /\ first /= NoLine) =>
            /\ fn_out.outcome = "location"
            /\ fn_out.line = IF label /= NoLine THEN label ELSE first

-----------------------------------------------------------------------------
(* get_references on a cached document, for a token that names a symbol *)

\* Largest line of the indexes handed to get_references
MaxRefLine == 2
\* Largest number of symbolic expressions of the BIR handed to it
MaxExprs == 2

\* The symbol under the cursor and one other symbol
Symbols == {"s", "t"}

\* byte_blocks_on(address): the blocks that cover the address
byte_blocks_on(ir, address) ==
    {b \in Blocks : block_address(b) <= address /\ address < block_address(b) + ir[b].size}

\* symbolic_references(ir, block.references): the (address, symbol) pairs of
\* the symbolic expressions whose symbol is one of those that refer to the
\* block
symbolic_references(exprs, referent, b) ==
    {e \in exprs : referent[e[2]] = b}

\* offsets_at_references: for every reference and every block on its
\* address, the Offset (block, address - block.address - 1) with the symbol
offsets_at_references(ir, references) ==
    {<<Offset(x[2], (x[1][1] - block_address(x[2])) - 1), x[1][2]>> :
        x \in {y \in references \X Blocks : y[2] \in byte_blocks_on(ir, y[1][1])}}

\* get_references from the symbol lookup on, for a token whose symbol s
\* refers to a block: every 'return None' of the handler is the outcome
\* "none", the list of Locations is the set of their lines.
get_references(offset_by_line, line_by_offset, ir, exprs, referent) ==
    LET reference_line == first_line_for_uuid(offset_by_line, referent["s"])
        none == [outcome |-> "none", lines |-> {}]
    IN  IF reference_line \notin DOMAIN offset_by_line THEN none
        ELSE LET b == offset_by_line[reference_line][1]
                 references == symbolic_references(exprs, referent, b)
                 offsets == offsets_at_references(ir, references)
                 lines == {offset_to_line(line_by_offset, o[1]) : o \in offsets} \ {NoLine}
             IN  IF references = {} \/ offsets = {} \/ lines = {} THEN none
                 ELSE [outcome |-> "locations", lines |-> lines]

\* The indexes of a listing, the symbolic expressions of the BIR as
\* (address, symbol) pairs, and the block each symbol refers to
ReferencesInputs ==
    [offset_by_line :
        {m \in UNION {[D -> Offsets] : D \in SUBSET (0 .. MaxRefLine)} :
            \A l1, l2 \in DOMAIN m : m[l1] = m[l2] => l1 = l2},
     exprs : {E \in SUBSET (Addrs \X Symbols) : Cardinality(E) <= MaxExprs},
     referent : [Symbols -> Blocks]]

InitReferences ==
    /\ Idle
    /\ fn_in \in ReferencesInputs
    /\ fn_out = [done |-> FALSE, outcome |-> "none", lines |-> {}]

GetReferences ==
    /\ ~fn_out.done
    /\ LET r == get_references(fn_in.offset_by_line, InverseOf(fn_in.offset_by_line),
                               InitialIR, fn_in.exprs, fn_in.referent)
       IN  fn_out' = [done |-> TRUE, outcome |-> r.outcome, lines |-> r.lines]
    /\ UNCHANGED <<server_vars, fn_in>>

SpecReferences == InitReferences /\ [][GetReferences]_vars

\* C19: get_references for a symbol s returns Locations on exactly the
\* lines that offset_to_line reaches from (b, addr - b.address - 1), over
\* the symbolic expressions at addr whose symbol is s and the blocks b on
\* addr; an expression that refers to another symbol adds no line.
C19_ReferencesOfTheSymbolOnly ==
    fn_out.done =>
        fn_out.lines =
            {offset_to_line(InverseOf(fn_in.offset_by_line), o[1]) :
                o \in offsets_at_references(InitialIR, {e \in fn_in.exprs : e[2] = "s"})} \ {NoLine}

-----------------------------------------------------------------------------
(* get_hover *)

\* Python's None for a text and for a function name; texts are tuples of
\* their parts
NoText == <<>>
NoName == "None"
NoAuxdataFound == <<"No auxdata found">>

\* The function names of the BIR, and the tokens a line can have under the
\* cursor: none, a name, a name with the "@PLT" suffix
FunctionNames == {"f", "g"}
Tokens == {"", "f", "g", "f@PLT"}

\* function_decompilations: the markdown of the function's functionSources
\* entry, None when it has none
function_decompilations(function_sources, name) ==
    IF name \in function_sources THEN <<"markdown of", name>> ELSE NoText

\* "token[:-4] if token.endswith('@PLT') else token"
strip_plt(token) == IF token = "f@PLT" THEN "f" ELSE token

\* get_hover: None when current_gtirbs lacks the uri, KeyError when
\* current_indexes does; then the aux data of the line's Offset, the
\* decompilation of the function named on the line, the prototype of the
\* token when gtirb_types was imported, each asked only "if auxdata is
\* None", and 'No auxdata found' when auxdata is still None at the end.
get_hover(h) ==
    LET hover(kind, value) == [outcome |-> "hover", kind |-> kind, value |-> value]
        auxdata == IF h.has_offset THEN h.auxdata ELSE NoText
        decomp == IF h.function_name /= NoName
                  THEN function_decompilations(h.function_sources, h.function_name)
                  ELSE NoText
        function_name == strip_plt(h.token)
    IN  IF ~h.in_gtirbs THEN [outcome |-> "none", kind |-> "", value |-> NoText]
        ELSE IF ~h.in_indexes THEN [outcome |-> "raised", kind |-> "", value |-> NoText]
        ELSE IF auxdata /= NoText THEN hover("plaintext", auxdata)
        ELSE IF decomp /= NoText THEN hover("markdown", decomp)
        ELSE IF h.gtirb_types_imported /\ h.token /= ""
                /\ function_name \in h.prototype_table
        THEN hover("plaintext", <<"prototype of", function_name>>)
        ELSE hover("plaintext", NoAuxdataFound)

HoverRequests ==
    [in_gtirbs : BOOLEAN, in_indexes : BOOLEAN, has_offset : BOOLEAN,
     auxdata : {NoText, <<"comments", "x">>},
     function_name : {NoName} \cup FunctionNames,
     function_sources : SUBSET FunctionNames,
     gtirb_types_imported : BOOLEAN,
     token : Tokens,
     prototype_table : SUBSET FunctionNames]

\* What one hover request meets: whether the uri is in current_gtirbs and in
\* current_indexes (ensure_index fills current_gtirbs first and did_close
\* empties it last, so an index without a BIR does not occur), whether the
\* line has an Offset and the Offset aux data, the function name parse_function_name reads on the line, the
\* functions with a functionSources entry, whether gtirb_types was imported,
\* the token under the cursor and the functions with a prototype.
HoverInputs ==
    {h \in HoverRequests : h.in_indexes => h.in_gtirbs}

InitHover ==
    /\ Idle
    /\ fn_in \in HoverInputs
    /\ fn_out = [done |-> FALSE, outcome |-> "none", kind |-> "", value |-> NoText]

GetHover ==
    /\ ~fn_out.done
    /\ LET r == get_hover(fn_in)
       IN  fn_out' = [done |-> TRUE, outcome |-> r.outcome, kind |-> r.kind,
                      value |-> r.value]
    /\ UNCHANGED <<server_vars, fn_in>>

SpecHover == InitHover /\ [][GetHover]_vars

\* C20: on a cached document, one that passes get_hover's own test of
\* current_gtirbs, get_hover returns a Hover, never None, with the first
\* that exists of: the aux data of the line's Offset as plain
\* text, the decompilation of the function named on the line as markdown,
\* the prototype of the token under the cursor as plain text; and the
\* plain text 'No auxdata found' when none exists.
C20_HoverFirstAvailableSource ==
    LET has_aux == fn_in.has_offset /\ fn_in.auxdata /= NoText
        has_decomp == fn_in.function_name \in fn_in.function_sources
        has_proto == /\ fn_in.gtirb_types_imported
                     /\ fn_in.token /= ""
                     /\ strip_plt(fn_in.token) \in fn_in.prototype_table
    IN  (fn_out.done /\ fn_in.in_gtirbs) =>
            /\ fn_out.outcome = "hover"
            /\ has_aux => fn_out.kind = "plaintext" /\ fn_out.value = fn_in.auxdata
            /\ (~has_aux /\ has_decomp) =>
                   /\ fn_out.kind = "markdown"
                   /\ fn_out.value = <<"markdown of", fn_in.function_name>>
            /\ (~has_aux /\ ~has_decomp /\ has_proto) =>
                   /\ fn_out.kind = "plaintext"
                   /\ fn_out.value = <<"prototype of", strip_plt(fn_in.token)>>
            /\ (~has_aux /\ ~has_decomp /\ ~has_proto) =>
                   fn_out.kind = "plaintext" /\ fn_out.value = NoAuxdataFound

-----------------------------------------------------------------------------
(* The custom commands, each called once on a server that has handled the *)
(* did_open of a listing, or none                                          *)

\* Listings of the command sessions have at most this many lines
MaxCmdLines == 2
\* Addresses asked for go from 0 to this one
MaxAsked == 5

\* What did_open left for the uri: no document; a document whose BIR did
\* not load; a document with its BIR, and with the index of its text unless
\* get_line_offset raised.
Stages == {"closed", "unloaded", "loaded"}

CommandListings ==
    UNION {[1 .. n -> {l \in Line : l.code}] : n \in 1 .. MaxCmdLines}

session_index(text) ==
    LET built == get_line_offset(InitialIR, text)
    IN  IF built.raised THEN EmptyMap
        ELSE "u" :> line_offsets_to_maps(InitialIR, built.line_offsets)

\* The server after the did_open that fn_in describes
Serving ==
    /\ rewrite_enabled = TRUE
    /\ server_remote = FALSE
    /\ documents = IF fn_in.stage = "closed" THEN EmptyMap ELSE "u" :> fn_in.text
    /\ current_gtirbs = IF fn_in.stage = "loaded" THEN "u" :> InitialIR ELSE EmptyMap
    /\ current_indexes = IF fn_in.stage = "loaded" THEN session_index(fn_in.text)
                         ELSE EmptyMap
    /\ modified_blocks = EmptyMap
    /\ path_map = IF fn_in.stage = "closed" THEN {} ELSE {"u"}
    /\ client_gtirb = [exists |-> TRUE, ir |-> InitialIR]
    /\ gtirb_file = IF fn_in.stage = "loaded" THEN client_gtirb ELSE NoFile
    /\ index_file = IF "u" \in DOMAIN session_index(fn_in.text) /\ fn_in.stage = "loaded"
                    THEN [exists |-> TRUE, parses |-> TRUE,
                          stored |-> json_dump(get_line_offset(InitialIR, fn_in.text).line_offsets)]
                    ELSE NoIndexFile
    /\ pending = {}
    /\ interleaved = 0
    /\ msgs = <<>>
    /\ last = Plain("none", "none")

\* An address string: whether int(address_str, 16) parses it, and its value
AddressStrs == [parses : BOOLEAN, value : 0 .. MaxAsked]

MsgNoMapping == "No address mapping for uri"
MsgInvalidAddress == "Invalid address"
MsgNoLineFor == "No line for address"

\* address_to_line: the first block on the address whose Offset has a
\* line that passes "if line"; line 0 and a missing entry are falsy
address_to_line(ir, line_by_offset, address) ==
    LET found == {line_by_offset[Offset(b, address - block_address(b))] :
                     b \in {c \in byte_blocks_on(ir, address) :
                               Offset(c, address - block_address(c)) \in DOMAIN line_by_offset}}
                 \ {0}
    IN  IF found = {} THEN NoLine ELSE Min(found)

\* get_line_from_address: what it returns and what it shows
get_line_from_address(uri, address_str) ==
    IF uri \notin DOMAIN documents \/ uri \notin DOMAIN current_gtirbs
    THEN [outcome |-> "none", line |-> NoLine, shown |-> <<MsgNoMapping>>]
    ELSE IF ~address_str.parses
    THEN [outcome |-> "none", line |-> NoLine, shown |-> <<MsgInvalidAddress>>]
    ELSE IF uri \notin DOMAIN current_indexes
    THEN [outcome |-> "raised", line |-> NoLine, shown |-> <<>>]
    ELSE LET line == address_to_line(current_gtirbs[uri], current_indexes[uri].lbo,
                                     address_str.value)
         IN  IF line /= NoLine
             THEN [outcome |-> "range", line |-> line, shown |-> <<>>]
             ELSE [outcome |-> "none", line |-> NoLine, shown |-> <<MsgNoLineFor>>]

\* What a symbol name finds in the BIR: no symbol, a symbol without a
\* referent, one that refers to a ProxyBlock, to a block, or to a block that
\* has no address
SymbolCases == {"unknown", "no referent", "ProxyBlock", "block without address"} \cup Blocks

\* What the cursor of a request is on: no token, or a token looked up as a
\* symbol name
CursorCases == {"no token", "unknown", "no referent", "ProxyBlock"} \cup Blocks

CommandInputs ==
    [command : {"getLineFromAddress"}, stage : Stages, text : CommandListings,
     address_str : AddressStrs]
    \cup [command : {"getAddressOfSymbol"}, stage : Stages, text : CommandListings,
          symbol : SymbolCases]
    \cup [command : {"getLineAddressList"}, stage : Stages, text : CommandListings]
    \cup [command : {"definition"}, stage : Stages, text : CommandListings,
          cursor : CursorCases, labelled : BOOLEAN]

NotCalled == [done |-> FALSE, outcome |-> "none", line |-> NoLine]

InitCommands ==
    /\ fn_in \in CommandInputs
    /\ Serving
    /\ fn_out = NotCalled

GetLineFromAddress ==
    /\ ~fn_out.done
    /\ fn_in.command = "getLineFromAddress"
    /\ LET r == get_line_from_address("u", fn_in.address_str)
       IN  /\ fn_out' = [done |-> TRUE, outcome |-> r.outcome, line |-> r.line]
           /\ msgs' = r.shown
    /\ UNCHANGED <<rewrite_enabled, server_remote, documents, current_gtirbs,
                   current_indexes, modified_blocks, path_map, gtirb_file,
                   client_gtirb, index_file, pending, interleaved, last, fn_in>>

-----------------------------------------------------------------------------
(* getAddressOfSymbol *)

MsgNoAddressMapping == "No address mapping for uri (symbol)"

\* hex() of a block address below 16
HexDigits == <<"0", "1", "2", "3", "4", "5", "6", "7", "8", "9",
               "a", "b", "c", "d", "e", "f">>
hex(n) == <<"0x", HexDigits[n + 1]>>

\* get_address_of_symbol: a symbol that is missing, has no referent or
\* refers to a ProxyBlock is logged with logger.warning and answered with
\* None; hex(block.address) raises TypeError for a block that has no address
get_address_of_symbol(uri, symbol) ==
    IF uri \notin DOMAIN documents \/ uri \notin DOMAIN current_gtirbs
    THEN [outcome |-> "none", address |-> <<>>, shown |-> <<MsgNoAddressMapping>>]
    ELSE IF symbol \in {"unknown", "no referent", "ProxyBlock"}
    THEN [outcome |-> "none", address |-> <<>>, shown |-> <<>>]
    ELSE IF symbol = "block without address"
    THEN [outcome |-> "raised", address |-> <<>>, shown |-> <<>>]
    ELSE [outcome |-> "address", address |-> hex(block_address(symbol)), shown |-> <<>>]

GetAddressOfSymbol ==
    /\ ~fn_out.done
    /\ fn_in.command = "getAddressOfSymbol"
    /\ LET r == get_address_of_symbol("u", fn_in.symbol)
       IN  /\ fn_out' = [done |-> TRUE, outcome |-> r.outcome, address |-> r.address]
           /\ msgs' = r.shown
    /\ UNCHANGED <<rewrite_enabled, server_remote, documents, current_gtirbs,
                   current_indexes, modified_blocks, path_map, gtirb_file,
                   client_gtirb, index_file, pending, interleaved, last, fn_in>>

-----------------------------------------------------------------------------
(* getLineAddressList and the definition request *)

MsgNoMappingList == "No address mapping for uri (list)"
MsgNotCached == "uri is not currently cached."
MsgNoToken == "no token found"
MsgNotDefined == "token is not defined."
MsgNoDefinition == "no definition found"

\* get_line_address_list: only ls.workspace.documents is tested before
\* current_indexes[document_uri] is read
get_line_address_list(uri) ==
    IF uri \notin DOMAIN documents
    THEN [outcome |-> "none", list |-> {}, shown |-> <<MsgNoMappingList>>]
    ELSE IF uri \notin DOMAIN current_indexes
    THEN [outcome |-> "raised", list |-> {}, shown |-> <<>>]
    ELSE LET offset_by_line == current_indexes[uri].obl
         IN  [outcome |-> "list",
              list |-> {<<line, block_address(offset_by_line[line][1]) + offset_by_line[line][2]>> :
                            line \in DOMAIN offset_by_line},
              shown |-> <<>>]

GetLineAddressList ==
    /\ ~fn_out.done
    /\ fn_in.command = "getLineAddressList"
    /\ LET r == get_line_address_list("u")
       IN  /\ fn_out' = [done |-> TRUE, outcome |-> r.outcome, list |-> r.list]
           /\ msgs' = r.shown
    /\ UNCHANGED <<rewrite_enabled, server_remote, documents, current_gtirbs,
                   current_indexes, modified_blocks, path_map, gtirb_file,
                   client_gtirb, index_file, pending, interleaved, last, fn_in>>

\* The listing as preceding_function_line reads it; the lines without an
\* address comment are "token:" lines when labelled
def_lines(text, labelled) ==
    [i \in 1 .. Len(text) |->
        [label |-> labelled /\ text[i].ea = NoEA, ea |-> text[i].ea /= NoEA]]

\* get_definition, the whole handler: the cache test, the token, the
\* symbol and its referent, then the line of the definition
definition_request(uri, cursor, labelled) ==
    IF uri \notin DOMAIN current_indexes \/ uri \notin DOMAIN current_gtirbs
    THEN [outcome |-> "none", line |-> NoLine, shown |-> <<MsgNotCached>>]
    ELSE IF cursor = "no token"
    THEN [outcome |-> "none", line |-> NoLine, shown |-> <<MsgNoToken>>]
    ELSE IF cursor \in {"unknown", "no referent", "ProxyBlock"}
    THEN [outcome |-> "none", line |-> NoLine, shown |-> <<MsgNotDefined>>]
    ELSE LET r == get_definition(current_indexes[uri].obl,
                                 def_lines(documents[uri], labelled), cursor)
         IN  [outcome |-> r.outcome, line |-> r.line,
              shown |-> IF r.outcome = "none" THEN <<MsgNoDefinition>> ELSE <<>>]

DefinitionRequest ==
    /\ ~fn_out.done
    /\ fn_in.command = "definition"
    /\ LET r == definition_request("u", fn_in.cursor, fn_in.labelled)
       IN  /\ fn_out' = [done |-> TRUE, outcome |-> r.outcome, line |-> r.line]
           /\ msgs' = r.shown
    /\ UNCHANGED <<rewrite_enabled, server_remote, documents, current_gtirbs,
                   current_indexes, modified_blocks, path_map, gtirb_file,
                   client_gtirb, index_file, pending, interleaved, last, fn_in>>

NextCommands ==
    \/ GetLineFromAddress
    \/ GetAddressOfSymbol
    \/ GetLineAddressList
    \/ DefinitionRequest

SpecCommands == InitCommands /\ [][NextCommands]_vars

\* The session maps are as the did_open left them
SessionUnchanged ==
    /\ documents = IF fn_in.stage = "closed" THEN EmptyMap ELSE "u" :> fn_in.text
    /\ current_gtirbs = IF fn_in.stage = "loaded" THEN "u" :> InitialIR ELSE EmptyMap
    /\ current_indexes = IF fn_in.stage = "loaded" THEN session_index(fn_in.text)
                         ELSE EmptyMap
    /\ modified_blocks = EmptyMap

\* The lines of the listing whose address comment is the address, when the
\* document is open with its BIR and an index
lines_at(address) ==
    IF "u" \in DOMAIN current_indexes
    THEN {n \in DOMAIN current_indexes["u"].obl :
             LET o == current_indexes["u"].obl[n]
             IN  block_address(o[1]) + o[2] = address}
    ELSE {}

\* C21: getLineFromAddress returns a Range on line n exactly when the
\* document is open, the hex string parses and the address is that of
\* indexed listing line n; in every other case it returns null, shows
\* exactly one message and changes no session state.
C21_LineFromAddressOrOneMessage ==
    (fn_out.done /\ fn_in.command = "getLineFromAddress") =>
        LET held == IF fn_in.address_str.parses /\ "u" \in DOMAIN documents
                    THEN lines_at(fn_in.address_str.value) ELSE {}
        IN  /\ SessionUnchanged
            /\ IF held /= {}
               THEN fn_out.outcome = "range" /\ fn_out.line \in held
               ELSE fn_out.outcome = "none" /\ Len(msgs) = 1

\* C22: on a document with its BIR getAddressOfSymbol returns the hex
\* address of the symbol's referent when the symbol exists and refers to a
\* block that is no ProxyBlock; for an unknown symbol, a missing referent
\* or a ProxyBlock it returns nothing and shows a message.
C22_AddressOrMessage ==
    (/\ fn_out.done /\ fn_in.command = "getAddressOfSymbol"
     /\ "u" \in DOMAIN documents /\ "u" \in DOMAIN current_gtirbs) =>
        IF fn_in.symbol \in {"unknown", "no referent", "ProxyBlock"}
        THEN fn_out.outcome = "none" /\ Len(msgs) >= 1
        ELSE /\ fn_out.outcome = "address"
             /\ fn_in.symbol \in Blocks => fn_out.address = hex(block_address(fn_in.symbol))

\* The uri has no session: its BIR or its index is not cached
NoSession == "u" \notin DOMAIN current_indexes \/ "u" \notin DOMAIN current_gtirbs

\* C23: a definition request or a custom command for a uri that has no
\* session, or whose cursor gives no token, no symbol, a ProxyBlock
\* referent or a symbol with no indexed line, returns nothing, shows a
\* message, raises nothing and leaves the session maps as they were.
C23_FailuresAreMessages ==
    LET no_target ==
            \/ /\ fn_in.command = "definition"
               /\ \/ fn_in.cursor \in {"no token", "unknown", "ProxyBlock"}
                  \/ /\ fn_in.cursor \in Blocks /\ ~NoSession
                     /\ first_line_for_uuid(current_indexes["u"].obl, fn_in.cursor) = NoLine
            \/ /\ fn_in.command = "getAddressOfSymbol"
               /\ fn_in.symbol \in {"unknown", "ProxyBlock"}
    IN  (fn_out.done /\ (NoSession \/ no_target)) =>
            /\ fn_out.outcome = "none"
            /\ Len(msgs) >= 1
            /\ SessionUnchanged


\* A did_open of the uri begins / a request for the BIR goes to the client
\* / a did_open that waited for the BIR resumes
OpenStarts == "u" \notin DOMAIN documents /\ "u" \in DOMAIN documents'
PullSent == \E p \in pending' \ pending : p.kind = "open"
PullAnswered == \E p \in pending \ pending' : p.kind = "open"

\* C24: in remote mode did_open asks the client for the BIR exactly when
\* the cache file of the uri is not there, and when the pulled BIR is
\* loaded the cache file holds the decoded answer and the BIR in memory is
\* the one of the cache file; in local mode did_open never asks.
C24_PullIffCacheFileAbsent ==
    [][/\ OpenStarts => (PullSent <=> (server_remote /\ ~gtirb_file.exists))
       /\ (PullAnswered /\ last'.outcome \notin {"fetch_failed", "decode_failed"}) =>
              /\ gtirb_file'.exists
              /\ gtirb_file'.ir = client_gtirb.ir
              /\ "u" \in DOMAIN current_gtirbs'
              /\ current_gtirbs'["u"] = gtirb_file'.ir]_vars

\* A remote did_open has pulled the BIR and built the index, and a later
\* did_open found the cache file and reused the index
C24_OpenedFromCacheFile ==
    /\ server_remote /\ pending = {}
    /\ last.op = "open" /\ last.outcome = "reused"
    /\ "u" \in DOMAIN current_gtirbs
    /\ current_gtirbs["u"] = gtirb_file.ir


\* A did_save begins / its push goes to the client / the client answers it
SaveStarts == last'.op = "save" /\ ~\E p \in pending \ pending' : p.kind = "save"
PushSent == \E p \in pending' \ pending : p.kind = "save"
PushAnswered == \E p \in pending \ pending' : p.kind = "save"

\* C25: did_save pushes the BIR to the client exactly when the server is
\* remote and the rewrite was applied and written to the BIR file; the
\* push comes after the write and carries the bytes of the written file,
\* and the success message comes only after the push; a local server
\* never pushes.
C25_PushAfterWriteBeforeSuccess ==
    [][/\ SaveStarts => (PushSent <=> (server_remote /\ last'.wrote))
       /\ PushSent =>
              /\ gtirb_file'.exists
              /\ gtirb_file'.ir = current_gtirbs'["u"]
              /\ \A p \in pending' \ pending :
                     base64_decodebytes(p.sent) = gtirb_file'.ir
              /\ Count(msgs', MsgSuccess) = 0
       /\ (Count(msgs', MsgSuccess) > 0 /\ server_remote) => PushAnswered]_vars

\* A remote did_save has rewritten a block to another size and pushed the
\* file, and the client holds it
C25_PushedRewrittenFile ==
    /\ server_remote /\ pending = {}
    /\ last.op = "save" /\ last.outcome = "success" /\ last.wrote
    /\ client_gtirb.ir /= InitialIR
    /\ client_gtirb.ir = gtirb_file.ir

-----------------------------------------------------------------------------
(* Several listings open at once, on a local server with rewriting on *)

\* Three listing documents: two in the cache directory of one BIR file,
\* the third in that of another
ListingURIs == {"file:///p/.vscode.a.gtirb/x/one.view",
                "file:///p/.vscode.a.gtirb/x/two.view",
                "file:///p/.vscode.b.gtirb/x/one.view"}

\* parse_listing_uri: the BIR file is named after the directory two levels
\* above the listing, without its ".vscode." prefix
parse_listing_uri(listing_uri) ==
    [asmfile |-> listing_uri,
     gtirbfile |-> IF listing_uri = "file:///p/.vscode.b.gtirb/x/one.view"
                   THEN "/p/b.gtirb" ELSE "/p/a.gtirb"]

GtirbFiles == {parse_listing_uri(uri).gtirbfile : uri \in ListingURIs}

\* The text of each listing: a banner, a line of block b1 and one of b2
ListingText ==
    <<[ea |-> NoEA, code |-> TRUE], [ea |-> 1, code |-> TRUE], [ea |-> 3, code |-> TRUE]>>

\* In this part gtirb_file holds every BIR file by its path, and last the
\* handler that ran last and its uri.
InitListings ==
    /\ rewrite_enabled = TRUE
    /\ server_remote = FALSE
    /\ documents = EmptyMap
    /\ current_gtirbs = EmptyMap
    /\ current_indexes = EmptyMap
    /\ modified_blocks = EmptyMap
    /\ path_map = {}
    /\ client_gtirb = [exists |-> TRUE, ir |-> InitialIR]
    /\ gtirb_file = [f \in GtirbFiles |-> InitialIR]
    /\ index_file = NoIndexFile
    /\ pending = {}
    /\ interleaved = 0
    /\ msgs = <<>>
    /\ last = [op |-> "none", uri |-> "none"]
    /\ fn_in = NoInput
    /\ fn_out = NoOutput

\* did_open: the path maps are set from parse_listing_uri, the BIR is
\* loaded from its file and the index is built from the text
OpenListing(uri) ==
    /\ uri \notin DOMAIN documents
    /\ LET ir == gtirb_file[parse_listing_uri(uri).gtirbfile]
       IN  /\ documents' = Put(documents, uri, ListingText)
           /\ path_map' = path_map \cup {uri}
           /\ current_gtirbs' = Put(current_gtirbs, uri, ir)
           /\ current_indexes' =
                  Put(current_indexes, uri,
                      line_offsets_to_maps(ir, get_line_offset(ir, ListingText).line_offsets))
    /\ last' = [op |-> "open", uri |-> uri]
    /\ UNCHANGED <<rewrite_enabled, server_remote, modified_blocks, gtirb_file,
                   client_gtirb, index_file, pending, interleaved, msgs, fn_in, fn_out>>

\* did_change of one line, its text replaced by one line: the block of the
\* line joins modified_blocks[uri]
EditListing(uri, line) ==
    /\ uri \in DOMAIN current_indexes
    /\ line \in DOMAIN current_indexes[uri].obl
    /\ modified_blocks' =
           Put(modified_blocks, uri,
               (IF uri \in DOMAIN modified_blocks THEN modified_blocks[uri] ELSE {})
                   \cup edited_blocks(current_indexes[uri].obl,
                                      <<[start |-> line, end |-> line]>>))
    /\ last' = [op |-> "change", uri |-> uri]
    /\ UNCHANGED <<rewrite_enabled, server_remote, documents, current_gtirbs,
                   current_indexes, path_map, gtirb_file, client_gtirb, index_file,
                   pending, interleaved, msgs, fn_in, fn_out>>

\* did_save with pending edits that assemble: the blocks are rewritten in
\* the IR of the uri, which is saved to gtirbfile_path_map[uri]
SaveListing(uri) ==
    /\ uri \in DOMAIN modified_blocks /\ uri \in DOMAIN current_gtirbs
    /\ \E sizes \in [modified_blocks[uri] -> BlockSizes] :
          LET new_ir == rewritten(current_gtirbs[uri], sizes)
          IN  /\ current_gtirbs' = Put(current_gtirbs, uri, new_ir)
              /\ gtirb_file' = Put(gtirb_file, parse_listing_uri(uri).gtirbfile, new_ir)
    /\ modified_blocks' = Del(modified_blocks, uri)
    /\ last' = [op |-> "save", uri |-> uri]
    /\ UNCHANGED <<rewrite_enabled, server_remote, documents, current_indexes,
                   path_map, client_gtirb, index_file, pending, interleaved, msgs,
                   fn_in, fn_out>>

\* did_close
CloseListing(uri) ==
    /\ uri \in DOMAIN documents
    /\ documents' = Del(documents, uri)
    /\ modified_blocks' = Del(modified_blocks, uri)
    /\ current_indexes' = Del(current_indexes, uri)
    /\ current_gtirbs' = Del(current_gtirbs, uri)
    /\ last' = [op |-> "close", uri |-> uri]
    /\ UNCHANGED <<rewrite_enabled, server_remote, path_map, gtirb_file,
                   client_gtirb, index_file, pending, interleaved, msgs, fn_in, fn_out>>

NextListings ==
    \/ \E uri \in ListingURIs : OpenListing(uri)
    \/ \E uri \in ListingURIs : \E line \in 0 .. Len(ListingText) - 1 : EditListing(uri, line)
    \/ \E uri \in ListingURIs : SaveListing(uri)
    \/ \E uri \in ListingURIs : CloseListing(uri)

SpecListings == InitListings /\ [][NextListings]_vars

\* The entry of a uri in a map, if it has one
Entry(map, uri) == IF uri \in DOMAIN map THEN <<map[uri]>> ELSE <<>>

\* C26: an event for one uri leaves the cached BIR, the index and the
\* dirty set of every other open uri as they were, and does not overwrite
\* the BIR file that backs another open uri.
C26_DocumentsShareNothing ==
    [][\A other \in DOMAIN documents :
          last'.uri /= other =>
              /\ Entry(current_gtirbs', other) = Entry(current_gtirbs, other)
              /\ Entry(current_indexes', other) = Entry(current_indexes, other)
              /\ Entry(modified_blocks', other) = Entry(modified_blocks, other)
              /\ gtirb_file'[parse_listing_uri(other).gtirbfile]
                     = gtirb_file[parse_listing_uri(other).gtirbfile]]_vars

-----------------------------------------------------------------------------
(* The JSON index written and read back: one listing indexed against one BIR *)

IRs == [Blocks -> [size : BlockSizes]]

IndexFileInputs ==
    [text : UNION {[1 .. n -> {l \in Line : l.code}] : n \in 1 .. MaxLines},
     ir : IRs]

InitIndexFile ==
    /\ Idle
    /\ fn_in \in IndexFileInputs
    /\ fn_out = [done |-> FALSE, raised |-> FALSE, line_offsets |-> <<>>, reloaded |-> <<>>]

\* ensure_index builds the list, dumps it, and a later ensure_index loads
\* the file
DumpAndLoad ==
    /\ ~fn_out.done
    /\ LET built == get_line_offset(fn_in.ir, fn_in.text)
           jsonfile == [exists |-> TRUE, parses |-> TRUE,
                        stored |-> json_dump(built.line_offsets)]
       IN  fn_out' = [done |-> TRUE, raised |-> built.raised,
                      line_offsets |-> built.line_offsets,
                      reloaded |-> IF built.raised THEN <<>>
                                   ELSE json_load(jsonfile).line_offsets]
    /\ UNCHANGED <<server_vars, fn_in>>

SpecIndexFile == InitIndexFile /\ [][DumpAndLoad]_vars

-----------------------------------------------------------------------------
(* run_gtirb_server: the loop that creates and starts servers *)

\* The loop is followed until this many servers have been started
MaxServers == 10

Modes == {"tcp", "stdio_remote", "stdio", "other"}

\* A loop that takes every return of the server for a keyboard interrupt
interrupted_always(shutdown) == TRUE

\* "if not server.lsp._shutdown"
interrupted(shutdown) == ~shutdown

\* fn_in is the mode argument; fn_out is where the loop is, the servers
\* started so far, how the last one returned, whether the diagnostic of an
\* unrecognized transport was logged, and the exit status.
InitRun ==
    /\ Idle
    /\ fn_in \in [mode : Modes]
    /\ fn_out = [pc |-> "create", started |-> 0, returned |-> "never",
                 logged |-> FALSE, status |-> -1]

\* One turn of "while True" up to the start of the server:
\* create_gtirb_server_instance, which disables rewriting when the
\* rewriting packages are missing, then the transport by mode; tcp calls
\* set_remote and stdio_remote sets force_remote.  An unrecognized mode is
\* logged and exits with 0.
StartServer ==
    /\ fn_out.pc = "create"
    /\ fn_out.started < MaxServers
    /\ rewrite_enabled' \in BOOLEAN
    /\ IF fn_in.mode \in {"tcp", "stdio_remote", "stdio"}
       THEN /\ server_remote' = (server_remote \/ fn_in.mode \in {"tcp", "stdio_remote"})
            /\ fn_out' = [fn_out EXCEPT !.pc = "serving", !.started = @ + 1]
       ELSE /\ server_remote' = server_remote
            /\ fn_out' = [fn_out EXCEPT !.pc = "exited", !.logged = TRUE, !.status = 0]
    /\ UNCHANGED <<documents, current_gtirbs, current_indexes, modified_blocks,
                   path_map, gtirb_file, client_gtirb, index_file, pending,
                   interleaved, msgs, last, fn_in>>

\* start_tcp / start_io returns, with server.lsp._shutdown set or not:
\* without it the process exits with 1, with it the loop goes round.
ServerReturns ==
    /\ fn_out.pc = "serving"
    /\ \E shutdown \in BOOLEAN :
          fn_out' = IF interrupted(shutdown)
                    THEN [fn_out EXCEPT !.pc = "exited", !.status = 1,
                                        !.returned = IF shutdown THEN "shutdown"
                                                     ELSE "interrupt"]
                    ELSE [fn_out EXCEPT !.pc = "create", !.returned = "shutdown"]
    /\ UNCHANGED <<server_vars, fn_in>>

NextRun == StartServer \/ ServerReturns

SpecRun == InitRun /\ [][NextRun]_vars

index_by_rule(index, c) ==
    apply_changes_to_indexes(index.obl, index.lbo,
        <<[start |-> c.start, end |-> c.end, new_count |-> c.new_count]>>)

\* C29: with rewriting enabled, a did_change with one content change on
\* lines start_line .. end_line of an indexed document leaves the index that
\* the update rule gives for old_count = end_line + 1 - start_line and
\* growth = lines(text) - old_count; a change of one line to one line of
\* text leaves the set of indexed lines as it was.
C29_ChangeCountsItsLines ==
    [][IF "u" \in DOMAIN documents /\ "u" \in DOMAIN current_indexes /\ can_rewrite
       THEN \A c \in Changes(documents["u"]) :
               (did_change("u", <<c>>) /\ last'.outcome = "stored") =>
                   LET index == current_indexes["u"]
                       after == current_indexes'["u"]
                       rule == index_by_rule(index, c)
                   IN  /\ ~rule.raised => after.obl = rule.obl /\ after.lbo = rule.lbo
                       /\ (c.start = c.end /\ c.new_count = 1) =>
                              DOMAIN after.obl = DOMAIN index.obl
       ELSE TRUE]_vars


\* modified_blocks[uri], empty when the uri has no entry
dirty_set(map, uri) == IF uri \in DOMAIN map THEN map[uri] ELSE {}

\* C30: after a did_change with rewriting enabled, every block that the
\* index mapped to a line in the span of a content change of the event is
\* in the dirty set of the document, and every block that was dirty before
\* the event still is.
C30_EditedBlocksAreDirty ==
    [][(last'.op = "change" /\ can_rewrite) =>
           /\ last'.edited \subseteq dirty_set(modified_blocks', "u")
           /\ dirty_set(modified_blocks, "u") \subseteq dirty_set(modified_blocks', "u")]_vars

-----------------------------------------------------------------------------
(* did_change events with several content changes: two documents with the *)
(* same listing and BIR; "u" receives one event carrying two changes, "v"   *)
(* receives the same two changes in two events                             *)

\* The listings did_open builds an index for
IndexedListings == {text \in Listings : ~get_line_offset(InitialIR, text).raised}

\* A listing, a change to it, and a change to what the first one leaves
EventInputs ==
    UNION {UNION {{[text |-> text, c1 |-> c1, c2 |-> c2] :
                      c2 \in Changes(replace_lines(text, c1))} :
                  c1 \in Changes(text)} :
           text \in IndexedListings}

InitEvents ==
    /\ fn_in \in EventInputs
    /\ fn_out = [u |-> 0, v |-> 0]
    /\ rewrite_enabled = TRUE
    /\ server_remote = FALSE
    /\ documents = [uri \in {"u", "v"} |-> fn_in.text]
    /\ current_gtirbs = [uri \in {"u", "v"} |-> InitialIR]
    /\ current_indexes = [uri \in {"u", "v"} |-> session_index(fn_in.text)["u"]]
    /\ modified_blocks = EmptyMap
    /\ path_map = {"u", "v"}
    /\ client_gtirb = [exists |-> TRUE, ir |-> InitialIR]
    /\ gtirb_file = client_gtirb
    /\ index_file = [exists |-> TRUE, parses |-> TRUE,
                     stored |-> json_dump(get_line_offset(InitialIR, fn_in.text).line_offsets)]
    /\ pending = {}
    /\ interleaved = 0
    /\ msgs = <<>>
    /\ last = Plain("none", "none")

\* One did_change event for "u" with both changes
EventOfBoth ==
    /\ fn_out.u = 0
    /\ did_change("u", <<fn_in.c1, fn_in.c2>>)
    /\ fn_out' = [fn_out EXCEPT !.u = 1]
    /\ UNCHANGED <<rewrite_enabled, server_remote, current_gtirbs, path_map,
                   gtirb_file, client_gtirb, index_file, pending, interleaved, fn_in>>

\* A did_change event for "v" with the first change ...
EventOfFirst ==
    /\ fn_out.v = 0
    /\ did_change("v", <<fn_in.c1>>)
    /\ fn_out' = [fn_out EXCEPT !.v = 1]
    /\ UNCHANGED <<rewrite_enabled, server_remote, current_gtirbs, path_map,
                   gtirb_file, client_gtirb, index_file, pending, interleaved, fn_in>>

\* ... and one with the second
EventOfSecond ==
    /\ fn_out.v = 1
    /\ did_change("v", <<fn_in.c2>>)
    /\ fn_out' = [fn_out EXCEPT !.v = 2]
    /\ UNCHANGED <<rewrite_enabled, server_remote, current_gtirbs, path_map,
                   gtirb_file, client_gtirb, index_file, pending, interleaved, fn_in>>

NextEvents ==
    \/ EventOfBoth
    \/ EventOfFirst
    \/ EventOfSecond

SpecEvents == InitEvents /\ [][NextEvents]_vars

\* C31: once "u" has handled the event carrying c1, c2 and "v" the event
\* carrying c1 and then the event carrying c2, the two documents have the
\* same index and the same dirty set.
C31_EventEqualsItsChangesInTurn ==
    (fn_out.u = 1 /\ fn_out.v = 2) =>
        /\ current_indexes["u"] = current_indexes["v"]
        /\ dirty_set(modified_blocks, "u") = dirty_set(modified_blocks, "v")

-----------------------------------------------------------------------------
(* did_open on a BIR whose blocks may overlap *)

\* The blocks of the IR that cover an address
blocks_covering(ir, a) ==
    {b \in Blocks : block_address(b) <= a /\ a < block_address(b) + ir[b].size}

\* BIRs in which the first block may reach into the second, with the order
\* in which the IR yields its blocks
OverlapIRs ==
    {[b1 |-> [size |-> s1], b2 |-> [size |-> s2], byte_blocks |-> order] :
        s1 \in BlockSizes \cup {Max(BlockSizes) + 1}, s2 \in BlockSizes,
        order \in Orders(Blocks)}

InitOverlap ==
    /\ rewrite_enabled = TRUE
    /\ server_remote = FALSE
    /\ documents = EmptyMap
    /\ current_gtirbs = EmptyMap
    /\ current_indexes = EmptyMap
    /\ modified_blocks = EmptyMap
    /\ path_map = {}
    /\ \E ir \in OverlapIRs : client_gtirb = [exists |-> TRUE, ir |-> ir]
    /\ gtirb_file = client_gtirb
    /\ index_file \in {NoIndexFile, CorruptIndexFile}
    /\ pending = {}
    /\ interleaved = 0
    /\ msgs = <<>>
    /\ last = Plain("none", "none")
    /\ fn_in = NoInput
    /\ fn_out = NoOutput

OpenOnOverlap ==
    /\ \E text \in Listings : did_open_local("u", text)
    /\ UNCHANGED interleaved

CloseOnOverlap ==
    /\ did_close("u")
    /\ UNCHANGED interleaved

NextOverlap ==
    \/ OpenOnOverlap
    \/ CloseOnOverlap

SpecOverlap == InitOverlap /\ [][NextOverlap]_vars

\* C32: every line of an index that did_open installed is mapped to a
\* block that is the only block of the document's BIR covering the address
\* of the line's Offset.
C32_IndexedBlockIsUnique ==
    \A uri \in DOMAIN current_indexes :
        \A l \in DOMAIN current_indexes[uri].obl :
            LET o == current_indexes[uri].obl[l]
            IN  blocks_covering(current_gtirbs[uri], block_address(o[1]) + o[2]) = {o[1]}

-----------------------------------------------------------------------------
(* preceding_function_line on its own: one call on a listing and a line *)

PrecedingInputs ==
    {i \in [current_lines : UNION {[1 .. n -> DefLine] : n \in 1 .. MaxDefLines},
            line : 0 .. MaxDefLines - 1] :
        i.line < Len(i.current_lines)}

InitPreceding ==
    /\ Idle
    /\ fn_in \in PrecedingInputs
    /\ fn_out = [done |-> FALSE, line |-> NoLine]

PrecedingFunctionLine ==
    /\ ~fn_out.done
    /\ fn_out' = [done |-> TRUE,
                  line |-> preceding_function_line(fn_in.current_lines, fn_in.line)]
    /\ UNCHANGED <<server_vars, fn_in>>

SpecPreceding == InitPreceding /\ [][PrecedingFunctionLine]_vars

\* The lines from 0 to line - 1 that name_re matches
labels_before(current_lines, line) ==
    {j \in 0 .. line - 1 : current_lines[j + 1].label}

\* C33: preceding_function_line returns the greatest j in 0 .. line - 1
\* whose text matches "name:" when no line strictly between j and line has
\* an address comment, and None when an address line comes first or no
\* line below "line" matches.
C33_NearestLabelFromLineZero ==
    fn_out.done =>
        LET labels == labels_before(fn_in.current_lines, fn_in.line)
        IN  IF /\ labels /= {}
               /\ \A k \in Max(labels) + 1 .. fn_in.line - 1 : ~fn_in.current_lines[k + 1].ea
            THEN fn_out.line = Max(labels)
            ELSE fn_out.line = NoLine

-----------------------------------------------------------------------------
(* The cached BIRs and the cached indexes *)

\* C34: in every reachable state the uris with a cached BIR are the uris
\* with a cached index, also after a did_open whose index build fails and
\* after the did_close that follows it.
C34_BirAndIndexCachedTogether ==
    DOMAIN current_gtirbs = DOMAIN current_indexes

-----------------------------------------------------------------------------
(* Edits that arrive while did_save waits for the client *)

\* The did_save that waits for the answer to its push resumes and ends
SaveCompletes == Waiting("save") /= {} /\ last'.op = "save"

\* The handler that ran last was a did_change that recorded its blocks
EditRecorded == last.op = "change" /\ last.outcome = "stored"

\* C35: the blocks recorded by a did_change that ran while did_save was
\* suspended on the push are in the dirty set of the document after that
\* did_save has completed.
C35_EditsDuringPushStayDirty ==
    [][(SaveCompletes /\ EditRecorded) =>
           last.edited \subseteq dirty_set(modified_blocks', "u")]_vars

-----------------------------------------------------------------------------
(* The final message of did_save *)

\* C36: a did_save never shows 'GTIRB rewritten successfully' and an
\* 'assembly error' message for the same save, also when did_close for the
\* uri ran while the save was suspended on the push.
C36_SaveReportsOneOutcome ==
    last.op = "save" =>
        ~(Count(msgs, MsgSuccess) > 0 /\ Count(msgs, MsgAsmError) > 0)

-----------------------------------------------------------------------------
(* did_save after lines were inserted into the listing *)

\* The user inserts at most this many lines
MaxInserted == 2

\* The content changes that insert one instruction line after a line of
\* the listing: the range is inside line s, the text is a line break and
\* the new line, so that line s stays and len(text.splitlines()) is 2.
Insertions(lines) ==
    {[start |-> s, end |-> s,
      lines |-> <<lines[s + 1], [ea |-> NoEA, code |-> TRUE]>>,
      new_count |-> Len(<<lines[s + 1], [ea |-> NoEA, code |-> TRUE]>>)] :
        s \in 0 .. Len(lines) - 1}

\* A document is open on a listing that did_open has indexed
InitInsert ==
    /\ fn_in \in [stage : {"loaded"}, text : IndexedListings]
    /\ Serving
    /\ fn_out = NoOutput

InsertLine ==
    /\ Len(documents["u"]) < MaxLines + MaxInserted
    /\ \E c \in Insertions(documents["u"]) : did_change("u", <<c>>)
    /\ UNCHANGED <<rewrite_enabled, server_remote, current_gtirbs, path_map,
                   gtirb_file, client_gtirb, index_file, pending, interleaved,
                   fn_in, fn_out>>

SaveInserted ==
    /\ did_save("u")
    /\ UNCHANGED <<rewrite_enabled, server_remote, documents, current_indexes,
                   path_map, client_gtirb, index_file, interleaved, fn_in, fn_out>>

NextInsert ==
    \/ InsertLine
    \/ SaveInserted

SpecInsert == InitInsert /\ [][NextInsert]_vars

\* The lines of the listing from the first to the last line whose address
\* comment lies in the block
block_span(ir, lines, b) ==
    LET own == {l \in 0 .. Len(lines) - 1 : b \in blocks_covering(ir, lines[l + 1].ea)}
    IN  IF own = {} THEN {} ELSE Min(own) .. Max(own)

\* The lines whose text did_save joins into the assembly of the block
submitted_lines(b) ==
    block_text(current_indexes["u"].lbo, b, current_gtirbs["u"][b].size,
               documents["u"]).lines

\* C37: for every block that a did_save hands to the rewriting context, the
\* lines joined into its assembly text are in listing order and include
\* every line of the document from the block's first to its last line,
\* inserted lines too.
C37_SubmittedTextCoversBlock ==
    [][(last'.op = "save" /\ last'.applied /= {}) =>
           \A b \in last'.applied :
               LET ls == submitted_lines(b)
               IN  /\ \A i, j \in 1 .. Len(ls) : i < j => ls[i] < ls[j]
                   /\ block_span(current_gtirbs["u"], documents["u"], b)
                          \subseteq {ls[i] : i \in 1 .. Len(ls)}]_vars

-----------------------------------------------------------------------------
(* The cache file after a pull that failed *)

\* A did_open that waited for the BIR ends because the request failed or
\* its answer could not be decoded
PullFailed == PullAnswered /\ last'.outcome \in {"fetch_failed", "decode_failed"}

\* C38: a did_open whose pull of the BIR fails, in the request or in the
\* decoding of its answer, leaves no file at the cache path (or the file
\* another did_open has put there), so that the next did_open of the uri
\* asks the client again.
C38_FailedPullLeavesNoCacheFile ==
    [][PullFailed => (~gtirb_file'.exists \/ gtirb_file' = gtirb_file)]_vars

-----------------------------------------------------------------------------
(* did_change on an empty index, and with no content changes *)

\* A did_change is handled for the open, indexed document with rewriting
\* enabled
ChangeOfIndexed ==
    /\ "u" \in DOMAIN documents /\ "u" \in DOMAIN current_indexes
    /\ can_rewrite
    /\ last'.op = "change"

\* C39: a did_change on an open, indexed document with rewriting enabled
\* ends without raising and with an index installed, when the index of the
\* document has no lines and when the event carries no content changes.
C39_ChangeOnEmptyIndexOrNoChanges ==
    [][(/\ ChangeOfIndexed
        /\ \/ DOMAIN current_indexes["u"].obl = {}
           \/ did_change("u", <<>>)) =>
           /\ last'.outcome = "stored"
           /\ "u" \in DOMAIN current_indexes']_vars

====
